---- MODULE Spec2Model ----
(***************************************************************************)
(* Model of the trends proxy of FastStabilizerPlugin (src/api/trends.js).  *)
(* The file holds two versions of the serverless handler:                  *)
(*   - the mock-fallback handler (line 23, fresh TTL 45 000 ms), and       *)
(*   - the interestKR handler   (line 884, fresh TTL 60 000 ms).           *)
(* A deployment runs one of the two; the variable "version" says which.    *)
(* Times are milliseconds.  Terms are indices into a fixed vocabulary; the *)
(* text of a term (a sequence of characters) is TermText(i).               *)
(***************************************************************************)
EXTENDS Integers, Sequences, FiniteSets, TLC

VARIABLES
  version,   \* which handler of src/api/trends.js is deployed
  now,       \* Date.now()
  cache,     \* globalThis.__TRENDS_PROXY_CACHE__ : key -> {ts, data}
  pending,   \* requests suspended at "await dispatchProvider(...)"
  resp,      \* the response written last (res.status(..).json(..))
  hist,      \* per key: outcome of the most recent dispatchProvider call
  nreq,      \* number of requests received
  calls,     \* number of dispatchProvider invocations
  gRank, gN, gOut,  \* inputs and result of the grade mapper exercised alone
  text,      \* input and results of the text functions exercised alone
  agg,       \* one aggregation pass of fromInterestKR: score map, seed workers
  dash,      \* the trend-dashboard handler: its memory cache and last response
  fetch      \* one call of a fetch helper: its timer and its network request

vars == <<version, now, cache, pending, resp, hist, nreq, calls, gRank, gN, gOut, text, agg, dash, fetch>>

----------------------------------------------------------------------------
(* Bounds *)

MaxRequests == 2
MaxTicks == 2
MaxGradeN == 210
MaxAdds == 3
MaxTitleWords == 3
MaxRelatedTitles == 2
MaxKeyRequests == 2
MaxRankTerms == 3
MaxCandidates == 4
MaxSubs == 4
MaxPassSeeds == 2
MaxSeeds == 7
MaxWaitSteps == 21
MaxDashTicks == 2
MaxDashRequests == 2
MaxFeedItems == 3

----------------------------------------------------------------------------
(* Small helpers *)

Min(a, b) == IF a < b THEN a ELSE b
Max(a, b) == IF a > b THEN a ELSE b

Absent == "<absent>"      \* a query parameter that was not sent
NaN == [nan |-> TRUE]     \* the result of +n for a non-numeric string

\* values a numeric query parameter or expression may hold: a number, a
\* string that is no number (text), or nothing (undefined)
Num(n) == [num |-> n]
Text(s) == [text |-> s]
Undefined == [undefined |-> TRUE]

\* the value of a component that takes no part in the behaviour at hand
Idle == [idle |-> TRUE]

\* the Latin letters
UpperLetters ==
  <<"A", "B", "C", "D", "E", "F", "G", "H", "I", "J", "K", "L", "M",
    "N", "O", "P", "Q", "R", "S", "T", "U", "V", "W", "X", "Y", "Z">>

LowerLetters ==
  <<"a", "b", "c", "d", "e", "f", "g", "h", "i", "j", "k", "l", "m",
    "n", "o", "p", "q", "r", "s", "t", "u", "v", "w", "x", "y", "z">>

\* String.prototype.toLowerCase on one character
LowerChar(c) ==
  IF \E i \in 1..26 : UpperLetters[i] = c
  THEN LowerLetters[CHOOSE i \in 1..26 : UpperLetters[i] = c]
  ELSE c

toLowerCase(s) == [i \in DOMAIN s |-> LowerChar(s[i])]

\* String.prototype.includes
includes(s, sub) ==
  \E i \in 1..(Len(s) - Len(sub) + 1) : SubSeq(s, i, i + Len(sub) - 1) = sub

\* String.prototype.trim (blank is the only white space of the alphabet)
RECURSIVE trim(_)
trim(s) ==
  IF s = <<>> THEN s
  ELSE IF Head(s) = " " THEN trim(Tail(s))
  ELSE IF s[Len(s)] = " " THEN trim(SubSeq(s, 1, Len(s) - 1))
  ELSE s

\* character classes.  "FFFD" is the replacement character U+FFFD; every
\* character that is no white space, digit or symbol is a letter, and a
\* letter that is not Latin is a Hangul syllable
Digits == {"0", "1", "2", "3", "4", "5", "6", "7", "8", "9"}

Brackets == {"[", "]", "{", "}", "(", ")", "<", ">"}

Symbols == Brackets \cup {"-", "!", "#", ",", ".", "&", ";", "/", "FFFD"}

isSpace(c) == c = " "
isDigit(c) == c \in Digits
isLetter(c) == ~isSpace(c) /\ ~isDigit(c) /\ c \notin Symbols
isLatin(c) == \E i \in 1..26 : c = UpperLetters[i] \/ c = LowerLetters[i]
isHangul(c) == isLetter(c) /\ ~isLatin(c)

\* s.replace(/\s+/g, ' ') on a string whose only white space is the blank
RECURSIVE collapseSpaces(_)
collapseSpaces(s) ==
  IF Len(s) < 2 THEN s
  ELSE IF s[1] = " " /\ s[2] = " " THEN collapseSpaces(Tail(s))
  ELSE <<s[1]>> \o collapseSpaces(Tail(s))

\* String.prototype.split(' ') followed by filter(Boolean): the maximal runs
\* of characters other than the blank
RECURSIVE splitWords(_)
splitWords(s) ==
  IF s = <<>> THEN <<>>
  ELSE IF s[1] = " " THEN splitWords(Tail(s))
  ELSE LET n == IF \E i \in 1..Len(s) : s[i] = " "
                THEN (CHOOSE i \in 1..Len(s) :
                        s[i] = " " /\ \A j \in 1..(i - 1) : s[j] # " ") - 1
                ELSE Len(s)
       IN  <<SubSeq(s, 1, n)>> \o splitWords(SubSeq(s, n + 1, Len(s)))

\* the words of a list joined by single blanks
RECURSIVE joinWords(_)
joinWords(ws) ==
  IF ws = <<>> THEN <<>>
  ELSE IF Len(ws) = 1 THEN ws[1]
  ELSE ws[1] \o <<" ">> \o joinWords(Tail(ws))

\* the elements of a sequence as a set
Range(s) == {s[i] : i \in DOMAIN s}

\* Array.from(new Set(arr)): first occurrences, in order
RECURSIVE uniq(_)
uniq(arr) ==
  IF arr = <<>> THEN <<>>
  ELSE LET init == uniq(SubSeq(arr, 1, Len(arr) - 1))
           x == arr[Len(arr)]
       IN  IF x \in Range(init) THEN init ELSE Append(init, x)

----------------------------------------------------------------------------
(* Vocabulary *)

\* characters are one-token strings; a Hangul syllable is written as k_ and
\* its romanisation ("k_ga" is one character)
Alphabet == <<"a", "B", "c", "k_ga", "k_na", "d">>

\* the 20 fixed keywords of makeMock, numbered 1001..1020
MockTerms ==
  << <<"k_te","k_seul","k_la">>, <<"k_bi","k_teu","k_ko","k_in">>, <<"A","I">>,
     <<"k_a","k_i","k_pon">>, <<"k_geum","k_ri">>, <<"k_hwan","k_yul">>,
     <<"k_yu","k_tyu","k_beu">>, <<"k_net","k_peul","k_rik","k_seu">>,
     <<"k_en","k_bi","k_di","k_a">>, <<"k_na","k_seu","k_dak">>,
     <<"k_ko","k_seu","k_pi">>, <<"k_bu","k_dong","k_san">>,
     <<"k_da","k_i","k_eo","k_teu">>, <<"k_yeo","k_haeng">>,
     <<"k_ban","k_do","k_che">>, <<"k_jeon","k_gi","k_cha">>,
     <<"C","P","I">>, <<"F","O","M","C">>, <<"E","T","F">>, <<"k_ko","k_in">> >>

MockBase == 1000

\* candidate i of an aggregation pass is the three-letter word spelling i-1
\* in base 6 over Alphabet
TermText(i) ==
  IF i > MockBase THEN MockTerms[i - MockBase]
  ELSE << Alphabet[(((i - 1) \div 36) % 6) + 1],
          Alphabet[(((i - 1) \div 6) % 6) + 1],
          Alphabet[((i - 1) % 6) + 1] >>

----------------------------------------------------------------------------
(* Program constants *)

FRESH_TTL_MOCK == 45000
FRESH_TTL_INTEREST == 60000
DEFAULT_LIMIT == 2000
LIMIT_MIN == 200
LIMIT_MAX == 5000
MIN_CANDIDATES == 200

\* process.env.INTEREST_LIMIT is not set in the modelled deployment
ENV_INTEREST_LIMIT == Undefined

----------------------------------------------------------------------------
(* Normalizers and number helpers *)

\* the unary + of JavaScript: a number (or numeric string) converts to its
\* value, the empty string to 0, any other string and undefined to NaN
unaryPlus(v) ==
  IF "num" \in DOMAIN v THEN v
  ELSE IF v = Text("") THEN Num(0)
  ELSE NaN

isFinite(x) == "num" \in DOMAIN x

\* a ?? b
nullish(a, b) == IF a = Undefined THEN b ELSE a

\* clampInt without its upper bound
clampInt_noUpper(n, min, max) ==
  LET x == IF isFinite(unaryPlus(n)) THEN unaryPlus(n).num ELSE min
  IN  Max(min, x)

clampInt(n, min, max) ==
  LET x == IF isFinite(unaryPlus(n)) THEN unaryPlus(n).num ELSE min
  IN  Min(max, Max(min, x))

\* Math.round of the rational num/den (den > 0): floor(num/den + 1/2)
roundDiv(num, den) == (2 * num + den) \div (2 * den)

\* normalizeSource of the interestKR handler on the raw values of the model
normalizeSource(s) ==
  CASE s = "INTEREST" -> "interestKR"
    [] s = "interestKR" -> "interestKR"
    [] s = "Naver" -> "naver"
    [] OTHER -> s

\* normalizeSource of the mock-fallback handler on the raw values of the model
normalizeSourceMock(s) ==
  CASE s = "Trend" -> "googleTrends"
    [] s = "MOCK" -> "mock"
    [] OTHER -> s

\* computeGradeByRank with the slope reversed
computeGradeByRank_ascending(rank, n) ==
  IF n <= 1 THEN 100
  ELSE LET g == roundDiv((rank - 1) * 100, n - 1)
       IN  clampInt(Num(g), 0, 100)

\* computeGradeByRank dividing by n where the code divides by n - 1
computeGradeByRank_overN(rank, n) ==
  IF n <= 1 THEN 100
  ELSE LET g == roundDiv(100 * n - (rank - 1) * 100, n)
       IN  clampInt(Num(g), 0, 100)

computeGradeByRank(rank, n) ==
  IF n <= 1 THEN 100
  ELSE LET g == roundDiv(100 * (n - 1) - (rank - 1) * 100, n - 1)
       IN  clampInt(Num(g), 0, 100)

----------------------------------------------------------------------------
(* Inputs of the model *)

\* raw values of the limit parameter a request may carry
LimitParams == {Undefined, Text("abc"), Num(150), Num(201), Num(9999)}

\* number of usable candidates the upstream feeds yield in one aggregation pass
CandCounts == {199, 200, 203}

----------------------------------------------------------------------------
(* In-memory cache: a Map from key to {ts, data} *)

Null == [null |-> TRUE]

\* memGet expiring an entry at the age of the TTL instead of past it
memGet_expiresAtTtl(m, key, ttlMs, t) ==
  IF key \notin DOMAIN m THEN Null
  ELSE IF m[key].ts = 0 THEN Null
  ELSE IF t - m[key].ts >= ttlMs THEN Null
  ELSE m[key].data

memGet(m, key, ttlMs, t) ==
  IF key \notin DOMAIN m THEN Null
  ELSE IF m[key].ts = 0 THEN Null
  ELSE IF t - m[key].ts > ttlMs THEN Null
  ELSE m[key].data

memSet(m, key, data, t) ==
  [k \in DOMAIN m \cup {key} |-> IF k = key THEN [ts |-> t, data |-> data] ELSE m[k]]

memGetAny(m, key) == IF key \notin DOMAIN m THEN Null ELSE m[key].data

memSetAny(m, key, data, t) ==
  [k \in DOMAIN m \cup {key} |-> IF k = key THEN [ts |-> t, data |-> data] ELSE m[k]]

\* withMeta: sets meta.tookMs, keeps meta.fetchedAt when it is set
withMeta(payload, tookMs, t) ==
  [payload EXCEPT !.meta.tookMs = tookMs,
                  !.meta.fetchedAt = IF @ = 0 THEN t ELSE @]

----------------------------------------------------------------------------
(* interestKR provider *)

\* accumulated score (in tenths) of candidate i in the score map
AccScore(i) == 1000 + 15 * ((i * 7) % 23)

\* the score map after the aggregation pass, in Map insertion order
ScoreEntries(cands) ==
  [i \in 1..cands |-> [term |-> i, score |-> AccScore(i)]] \o <<>>

\* entries.sort((a, b) => b.scoreRaw - a.scoreRaw): a stable sort. pos[i] is
\* the place of entries[i] in the result: after every entry of a higher score
\* and after the earlier entries of the same score
sortByScoreDesc(entries) ==
  LET n == Len(entries)
      pos == [i \in 1..n |->
               1 + Cardinality({j \in 1..n :
                     \/ entries[j].score > entries[i].score
                     \/ entries[j].score = entries[i].score /\ j < i})] \o <<>>
      inv == [p \in 1..n |-> CHOOSE i \in 1..n : pos[i] = p] \o <<>>
  IN  [p \in 1..n |-> entries[inv[p]]] \o <<>>

\* Array.prototype.slice(0, k)
slice0(s, k) == SubSeq(s, 1, Min(Len(s), k))

Ok(payload) == [ok |-> TRUE, payload |-> payload]
Throw(message) == [ok |-> FALSE, message |-> message]

newMeta(source, isMock, note, t) ==
  [source |-> source, isMock |-> isMock, stale |-> FALSE, staleReason |-> Absent,
   note |-> note, fetchedAt |-> t, tookMs |-> 0]

\* fromInterestKR with the candidate count check off by one
fromInterestKR_offByOne(cands, limit, t) ==
  LET entries == ScoreEntries(cands)
  IN  IF Len(entries) < MIN_CANDIDATES - 1 THEN Throw("interestKR_too_few")
      ELSE
        LET top == slice0(sortByScoreDesc(entries), limit)
            items == [idx \in 1..Len(top) |->
                       [rank |-> idx,
                        grade |-> computeGradeByRank(idx, Len(top)),
                        term |-> top[idx].term,
                        scoreRaw |-> roundDiv(top[idx].score, 10)]]
        IN  Ok([items |-> items,
                meta |-> [source |-> "interestKR", isMock |-> FALSE, stale |-> FALSE,
                          staleReason |-> Absent, note |-> "interestKR",
                          limit |-> limit, fetchedAt |-> t, tookMs |-> 0]])

\* fromInterestKR from the candidate count check on; cands is the size of the
\* score map the feeds produced
fromInterestKR(cands, limit, t) ==
  LET entries == ScoreEntries(cands)
  IN  IF Len(entries) < MIN_CANDIDATES THEN Throw("interestKR_too_few")
      ELSE
        LET top == slice0(sortByScoreDesc(entries), limit)
            items == [idx \in 1..Len(top) |->
                       [rank |-> idx,
                        grade |-> computeGradeByRank(idx, Len(top)),
                        term |-> top[idx].term,
                        scoreRaw |-> roundDiv(top[idx].score, 10)]]
        IN  Ok([items |-> items,
                meta |-> [source |-> "interestKR", isMock |-> FALSE, stale |-> FALSE,
                          staleReason |-> Absent, note |-> "interestKR",
                          limit |-> limit, fetchedAt |-> t, tookMs |-> 0]])

\* req.query.limit ?? process.env.INTEREST_LIMIT ?? 2000, clamped
requestLimit(limitParam) ==
  clampInt(nullish(nullish(limitParam, ENV_INTEREST_LIMIT), Num(DEFAULT_LIMIT)),
           LIMIT_MIN, LIMIT_MAX)

\* fromInterestKR tabulated over the inputs of the model (evaluated once); the
\* time stamp of the run is filled in by interestKRRun
InterestKRTable ==
  [c \in CandCounts, l \in {requestLimit(p) : p \in LimitParams} |->
     fromInterestKR(c, l, 0)] @@ <<>>

interestKRRun(cands, limit, t) ==
  LET r == InterestKRTable[cands, limit]
  IN  IF r.ok THEN Ok([r.payload EXCEPT !.meta.fetchedAt = t]) ELSE r

\* sources of dispatchProvider that settle without any network call
settlesAtOnce(source) == source # "interestKR"

\* dispatchProvider of the interestKR handler; NAVER_CLIENT_ID is not set
dispatchProvider(source, limit, cands, t) ==
  IF source = "interestKR" THEN interestKRRun(cands, limit, t)
  ELSE IF source = "naver" THEN Throw("NAVER_CLIENT_ID/SECRET")
  ELSE Throw("unknown source")

----------------------------------------------------------------------------
(* Handler helpers shared by both versions *)

put(f, k, v) == [x \in DOMAIN f \cup {k} |-> IF x = k THEN v ELSE f[x]]

\* (req.query.q ?? '') || '' , then toString().trim()
requestQ(qParam) == trim(qParam)

termMatches(item, qq) == includes(toLowerCase(TermText(item.term)), qq)

\* items.filter((x) => String(x.term || '').toLowerCase().includes(qq))
RECURSIVE filterByQ(_, _)
filterByQ(items, qq) ==
  IF Len(items) = 0 THEN <<>>
  ELSE IF Len(items) = 1 THEN (IF termMatches(items[1], qq) THEN items ELSE <<>>)
  ELSE LET h == Len(items) \div 2
       IN  filterByQ(SubSeq(items, 1, h), qq)
             \o filterByQ(SubSeq(items, h + 1, Len(items)), qq)

\* stalePayload that forgets the reason
stalePayload_noReason(stale, message) ==
  [stale EXCEPT !.meta.stale = TRUE]

\* stalePayload that forgets the flag
stalePayload_noFlag(stale, message) ==
  [stale EXCEPT !.meta.staleReason = message]

\* the payload served when the provider threw and a cached payload exists
stalePayload(stale, message) ==
  [stale EXCEPT !.meta.stale = TRUE, !.meta.staleReason = message]

\* a response: the request it answers (its number and its query string), the
\* HTTP status, the body, the cache key and the branch of the handler taken
NoResponse ==
  [id |-> 0, rq |-> Null, status |-> 0, path |-> "none", key |-> Null, body |-> Null]

Response(rec, status, path, body) ==
  [id |-> rec.id, rq |-> rec.rq, status |-> status, path |-> path,
   key |-> rec.key, body |-> body]

----------------------------------------------------------------------------
(* interestKR handler (src/api/trends.js line 884) *)

\* a cache key that leaves the filter word out
interestKey_withoutQ(source, q, limit) ==
  [source |-> source, tf |-> "hour", geo |-> "KR", hl |-> "ko", cat |-> "all",
   q |-> <<>>, limit |-> limit, seeds |-> "", seedMode |-> "", expand |-> ""]

interestKey(source, q, limit) ==
  [source |-> source, tf |-> "hour", geo |-> "KR", hl |-> "ko", cat |-> "all",
   q |-> q, limit |-> limit, seeds |-> "", seedMode |-> "", expand |-> ""]

\* the request as parsed by lines 899-914
interestRequest(id, rq, c, t) ==
  LET source == normalizeSource(IF rq.source = Absent THEN "interestKR" ELSE rq.source)
      q == requestQ(rq.q)
      limit == requestLimit(rq.limit)
      key == interestKey(source, q, limit)
  IN  [id |-> id, rq |-> rq, source |-> source, q |-> q, limit |-> limit,
       key |-> key, stale |-> memGetAny(c, key), startedAt |-> t]

\* the server side q filter of lines 939-942 (positions are not re-assigned)
interestQFilter(payload, q) ==
  IF q # <<>> THEN [payload EXCEPT !.items = filterByQ(@, toLowerCase(q))]
  ELSE payload

\* interestSettle answering a failure without a cached payload by an empty
\* list that it also stores
interestSettle_emptyList(rec, result, c, t) ==
  LET chosen == IF result.ok THEN result.payload
                ELSE IF rec.stale # Null THEN stalePayload(rec.stale, result.message)
                ELSE [items |-> <<>>,
                      meta |-> [source |-> rec.source, isMock |-> FALSE, stale |-> TRUE,
                                staleReason |-> result.message, note |-> "empty",
                                limit |-> rec.limit, fetchedAt |-> t, tookMs |-> 0]]
      payload == withMeta(interestQFilter(chosen, rec.q), t - rec.startedAt, t)
  IN  [cache |-> memSetAny(memSet(c, rec.key, payload, t), rec.key, payload, t),
       resp |-> Response(rec, 200, IF result.ok THEN "live" ELSE "stale", payload)]

\* lines 916-949: what the handler does once dispatchProvider has settled
\* with result; c is the cache and t the time at that moment
interestSettle(rec, result, c, t) ==
  IF ~result.ok /\ rec.stale = Null THEN
    [cache |-> c,
     resp |-> Response(rec, 503, "error",
                [error |-> "provider_failed", message |-> result.message])]
  ELSE
    LET chosen == IF result.ok THEN result.payload
                  ELSE stalePayload(rec.stale, result.message)
        payload == withMeta(interestQFilter(chosen, rec.q), t - rec.startedAt, t)
    IN  [cache |-> memSetAny(memSet(c, rec.key, payload, t), rec.key, payload, t),
         resp |-> Response(rec, 200, IF result.ok THEN "live" ELSE "stale", payload)]

\* the record kept per key about the most recent dispatchProvider call: the
\* request that made it, what the upstream yielded, how it settled, and the
\* upstream yield of the most recent call that succeeded
histAfter(h, key, result, cands, id) ==
  put(h, key,
      IF result.ok
      THEN [last |-> "ok", lastId |-> id, lastCands |-> cands, message |-> Absent,
            hasGood |-> TRUE, goodCands |-> cands]
      ELSE [last |-> "threw", lastId |-> id, lastCands |-> cands,
            message |-> result.message,
            hasGood |-> IF key \in DOMAIN h THEN h[key].hasGood ELSE FALSE,
            goodCands |-> IF key \in DOMAIN h THEN h[key].goodCands ELSE 0])

\* the query strings sent to the interestKR handler
Requests ==
  { [source |-> Absent,     q |-> <<>>,         limit |-> Undefined],
    [source |-> "INTEREST", q |-> <<" ", "B">>, limit |-> Text("abc")],
    [source |-> Absent,     q |-> <<>>,         limit |-> Num(150)],
    [source |-> "bogus",    q |-> <<>>,         limit |-> Num(9999)],
    [source |-> "Naver",    q |-> <<" ", "B">>, limit |-> Num(201)] }

\* line 889: a preflight request ends before anything else happens
HandleOptions ==
  /\ nreq < MaxRequests
  /\ nreq' = nreq + 1
  /\ resp' = Response([id |-> nreq + 1, rq |-> Null, key |-> Null], 200, "options", Null)
  /\ UNCHANGED <<version, now, cache, pending, hist, calls, gRank, gN, gOut, text, agg, dash, fetch>>

\* lines 911-912: a fresh entry is served as it is; withMeta writes tookMs
\* into the cached object itself
InterestFreshHit(rq, width) ==
  /\ version = "interestKR"
  /\ nreq < MaxRequests
  /\ Cardinality(pending) < width
  /\ LET rec == interestRequest(nreq + 1, rq, cache, now)
         fresh == memGet(cache, rec.key, FRESH_TTL_INTEREST, now)
     IN  /\ fresh # Null
         /\ LET out == withMeta(fresh, 0, now)
            IN  /\ cache' = [cache EXCEPT ![rec.key].data = out]
                /\ resp' = Response(rec, 200, "fresh", out)
  /\ nreq' = nreq + 1
  /\ UNCHANGED <<version, now, pending, hist, calls, gRank, gN, gOut, text, agg, dash, fetch>>

\* lines 914-918: no fresh entry; the provider is called and the request
\* waits for the network
InterestAwait(rq, width) ==
  /\ version = "interestKR"
  /\ nreq < MaxRequests
  /\ Cardinality(pending) < width
  /\ LET rec == interestRequest(nreq + 1, rq, cache, now)
     IN  /\ memGet(cache, rec.key, FRESH_TTL_INTEREST, now) = Null
         /\ ~settlesAtOnce(rec.source)
         /\ pending' = pending \cup {rec}
  /\ nreq' = nreq + 1
  /\ calls' = calls + 1
  /\ UNCHANGED <<version, now, cache, resp, hist, gRank, gN, gOut, text, agg, dash, fetch>>

\* lines 914-936: no fresh entry and a provider that throws before any
\* network call
InterestThrowAtOnce(rq, width) ==
  /\ version = "interestKR"
  /\ nreq < MaxRequests
  /\ Cardinality(pending) < width
  /\ LET rec == interestRequest(nreq + 1, rq, cache, now)
         result == dispatchProvider(rec.source, rec.limit, 0, now)
         out == interestSettle(rec, result, cache, now)
     IN  /\ memGet(cache, rec.key, FRESH_TTL_INTEREST, now) = Null
         /\ settlesAtOnce(rec.source)
         /\ cache' = out.cache
         /\ resp' = out.resp
         /\ hist' = histAfter(hist, rec.key, result, 0, rec.id)
  /\ nreq' = nreq + 1
  /\ calls' = calls + 1
  /\ UNCHANGED <<version, now, pending, gRank, gN, gOut, text, agg, dash, fetch>>

\* lines 918-949: the provider settles for a waiting request; cands is what
\* the upstream feeds yielded
InterestResume(rec, cands) ==
  /\ version = "interestKR"
  /\ rec \in pending
  /\ LET result == dispatchProvider(rec.source, rec.limit, cands, now)
         out == interestSettle(rec, result, cache, now)
     IN  /\ cache' = out.cache
         /\ resp' = out.resp
         /\ hist' = histAfter(hist, rec.key, result, cands, rec.id)
  /\ pending' = pending \ {rec}
  /\ UNCHANGED <<version, now, nreq, calls, gRank, gN, gOut, text, agg, dash, fetch>>

----------------------------------------------------------------------------
(* mock-fallback handler (src/api/trends.js line 23) *)

mockKey(source, q) ==
  [source |-> source, tf |-> "hour", geo |-> "KR", hl |-> "ko", cat |-> "all",
   q |-> q]

\* topN: sort by score, keep n, number the ranks.  The scores come from
\* Math.random; rnd = 0 leaves the list in its order, rnd = 1 reverses it
topN(terms, n, rnd) ==
  LET k == Min(Len(terms), n)
      ordered == [i \in 1..Len(terms) |->
                    IF rnd = 0 THEN terms[i] ELSE terms[Len(terms) + 1 - i]]
  IN  [i \in 1..k |-> [rank |-> i, term |-> ordered[i], score |-> 300 - 10 * i]]

makeMock(source, note, rnd, t) ==
  [items |-> topN([i \in 1..Len(MockTerms) |-> MockBase + i], 20, rnd),
   meta |-> newMeta(source, TRUE, note, t)]

\* fromGoogleTrendsRss of the mock-fallback version; feed is what the fetch
\* gave: whether it was ok, and the number of titles parsed from its text
fromGoogleTrendsRssMock(feed, rnd, t) ==
  IF ~feed.ok THEN Throw("Google Trends RSS fetch")
  ELSE IF feed.titles < 3 THEN Ok(makeMock("googleTrends", "trends rss -> mock", rnd, t))
  ELSE Ok([items |-> topN([i \in 1..Min(feed.titles, 60) |-> i], 20, rnd),
           meta |-> newMeta("googleTrends", FALSE, "Google Trends realtime RSS", t)])

settlesAtOnceMock(source) == source # "googleTrends"

\* dispatchProvider of the mock-fallback handler
dispatchProviderMock(source, feed, rnd, t) ==
  IF source = "mock" THEN Ok(makeMock("mock", "proxy mock", rnd, t))
  ELSE IF source = "googleTrends" THEN fromGoogleTrendsRssMock(feed, rnd, t)
  ELSE Ok(makeMock("mock", "unknown source -> mock", rnd, t))

\* the request as parsed by lines 37-49
mockRequest(id, rq, c, t) ==
  LET source == normalizeSourceMock(IF rq.source = Absent THEN "mock" ELSE rq.source)
      q == requestQ(rq.q)
      key == mockKey(source, q)
  IN  [id |-> id, rq |-> rq, source |-> source, q |-> q, key |-> key,
       stale |-> memGetAny(c, key), startedAt |-> t]

\* lines 74-78: the q filter, which numbers the ranks again
mockQFilter(payload, q) ==
  IF q # <<>> THEN
    LET kept == filterByQ(payload.items, toLowerCase(q))
    IN  [payload EXCEPT !.items = [i \in 1..Len(kept) |-> [kept[i] EXCEPT !.rank = i]]]
  ELSE payload

\* lines 52-85: what the handler does once dispatchProvider has settled
mockSettle(rec, result, rnd, c, t) ==
  LET chosen == IF result.ok THEN result.payload
                ELSE IF rec.stale # Null THEN stalePayload(rec.stale, result.message)
                ELSE makeMock("mock", "provider failed -> mock", rnd, t)
      payload == withMeta(mockQFilter(chosen, rec.q), t - rec.startedAt, t)
  IN  [cache |-> memSetAny(memSet(c, rec.key, payload, t), rec.key, payload, t),
       resp |-> Response(rec, 200,
                         IF result.ok THEN "live"
                         ELSE IF rec.stale # Null THEN "stale" ELSE "degraded",
                         payload)]

\* the query strings sent to the mock-fallback handler
RequestsMock ==
  { [source |-> Absent,  q |-> <<>>],
    [source |-> "Trend", q |-> <<" ", "B">>],
    [source |-> "bogus", q |-> <<"a", "i">>] }

\* what the Google Trends feed may give
Feeds ==
  {[ok |-> FALSE, titles |-> 0], [ok |-> TRUE, titles |-> 2], [ok |-> TRUE, titles |-> 4]}

NoFeed == [ok |-> FALSE, titles |-> 0]

\* lines 46-47: a fresh entry is served as it is
MockFreshHit(rq, width) ==
  /\ version = "mock"
  /\ nreq < MaxRequests
  /\ Cardinality(pending) < width
  /\ LET rec == mockRequest(nreq + 1, rq, cache, now)
         fresh == memGet(cache, rec.key, FRESH_TTL_MOCK, now)
     IN  /\ fresh # Null
         /\ LET out == withMeta(fresh, 0, now)
            IN  /\ cache' = [cache EXCEPT ![rec.key].data = out]
                /\ resp' = Response(rec, 200, "fresh", out)
  /\ nreq' = nreq + 1
  /\ UNCHANGED <<version, now, pending, hist, calls, gRank, gN, gOut, text, agg, dash, fetch>>

\* lines 49-85 for a source that needs no network call (mock, unknown)
MockServeAtOnce(rq, rnd, width) ==
  /\ version = "mock"
  /\ nreq < MaxRequests
  /\ Cardinality(pending) < width
  /\ LET rec == mockRequest(nreq + 1, rq, cache, now)
         result == dispatchProviderMock(rec.source, NoFeed, rnd, now)
         out == mockSettle(rec, result, rnd, cache, now)
     IN  /\ memGet(cache, rec.key, FRESH_TTL_MOCK, now) = Null
         /\ settlesAtOnceMock(rec.source)
         /\ cache' = out.cache
         /\ resp' = out.resp
         /\ hist' = histAfter(hist, rec.key, result, 0, rec.id)
  /\ nreq' = nreq + 1
  /\ calls' = calls + 1
  /\ UNCHANGED <<version, now, pending, gRank, gN, gOut, text, agg, dash, fetch>>

\* lines 49-53: the provider is called and the request waits for the network
MockAwait(rq, width) ==
  /\ version = "mock"
  /\ nreq < MaxRequests
  /\ Cardinality(pending) < width
  /\ LET rec == mockRequest(nreq + 1, rq, cache, now)
     IN  /\ memGet(cache, rec.key, FRESH_TTL_MOCK, now) = Null
         /\ ~settlesAtOnceMock(rec.source)
         /\ pending' = pending \cup {rec}
  /\ nreq' = nreq + 1
  /\ calls' = calls + 1
  /\ UNCHANGED <<version, now, cache, resp, hist, gRank, gN, gOut, text, agg, dash, fetch>>

\* lines 53-85: the provider settles for a waiting request
MockResume(rec, feed, rnd) ==
  /\ version = "mock"
  /\ rec \in pending
  /\ LET result == dispatchProviderMock(rec.source, feed, rnd, now)
         out == mockSettle(rec, result, rnd, cache, now)
     IN  /\ cache' = out.cache
         /\ resp' = out.resp
         /\ hist' = histAfter(hist, rec.key, result, 0, rec.id)
  /\ pending' = pending \ {rec}
  /\ UNCHANGED <<version, now, nreq, calls, gRank, gN, gOut, text, agg, dash, fetch>>

----------------------------------------------------------------------------
(* Time *)

FreshTtl == IF version = "mock" THEN FRESH_TTL_MOCK ELSE FRESH_TTL_INTEREST

\* the clock advances by exactly one TTL, or by one millisecond more
TickSteps == {FreshTtl, FreshTtl + 1}

\* time passes between two requests
Tick(d) ==
  /\ pending = {}
  /\ nreq < MaxRequests
  /\ now + d <= 1 + MaxTicks * (FreshTtl + 1)
  /\ now' = now + d
  /\ UNCHANGED <<version, cache, pending, resp, hist, nreq, calls, gRank, gN, gOut, text, agg, dash, fetch>>

\* time passes while requests wait for their provider
TickWaiting(d) ==
  /\ pending # {}
  /\ now + d <= 1 + MaxTicks * (FreshTtl + 1)
  /\ now' = now + d
  /\ UNCHANGED <<version, cache, pending, resp, hist, nreq, calls, gRank, gN, gOut, text, agg, dash, fetch>>

----------------------------------------------------------------------------
(* Specifications *)

Init ==
  /\ version \in {"mock", "interestKR"}
  /\ now = 1
  /\ cache = <<>>
  /\ pending = {}
  /\ resp = NoResponse
  /\ hist = <<>>
  /\ nreq = 0
  /\ calls = 0
  /\ gRank = 0 /\ gN = 0 /\ gOut = 0
  /\ text = Idle /\ agg = Idle /\ dash = Idle /\ fetch = Idle

\* requests are handled one after the other
Next ==
  \/ HandleOptions
  \/ \E rq \in Requests : InterestFreshHit(rq, 1)
  \/ \E rq \in Requests : InterestAwait(rq, 1)
  \/ \E rq \in Requests : InterestThrowAtOnce(rq, 1)
  \/ \E rec \in pending, cands \in CandCounts : InterestResume(rec, cands)
  \/ \E rq \in RequestsMock : MockFreshHit(rq, 1)
  \/ \E rq \in RequestsMock, rnd \in {0, 1} : MockServeAtOnce(rq, rnd, 1)
  \/ \E rq \in RequestsMock : MockAwait(rq, 1)
  \/ \E rec \in pending, feed \in Feeds, rnd \in {0, 1} : MockResume(rec, feed, rnd)
  \/ \E d \in TickSteps : Tick(d)

Spec == Init /\ [][Next]_vars

\* the interestKR handler serving requests for one cache key that overlap at
\* the provider await; the cache is empty, or holds the payload of a run that
\* succeeded at time 1 and has expired since
ConcRequest == [source |-> "INTEREST", q |-> <<" ", "B">>, limit |-> Text("abc")]

ConcKey == interestKey("interestKR", <<"B">>, LIMIT_MIN)

InitConc ==
  /\ version = "interestKR"
  /\ \/ now = 1 /\ cache = <<>> /\ hist = <<>>
     \/ /\ now = 1 + FRESH_TTL_INTEREST + 1
        /\ \E cands \in {c \in CandCounts : c >= MIN_CANDIDATES} :
             LET rec == interestRequest(0, ConcRequest, <<>>, 1)
                 result == dispatchProvider("interestKR", LIMIT_MIN, cands, 1)
             IN  /\ cache = interestSettle(rec, result, <<>>, 1).cache
                 /\ hist = histAfter(<<>>, ConcKey, result, cands, 0)
  /\ pending = {}
  /\ resp = NoResponse
  /\ nreq = 0
  /\ calls = 0
  /\ gRank = 0 /\ gN = 0 /\ gOut = 0
  /\ text = Idle /\ agg = Idle /\ dash = Idle /\ fetch = Idle

NextConc ==
  \/ InterestFreshHit(ConcRequest, 2)
  \/ InterestAwait(ConcRequest, 2)
  \/ \E rec \in pending, cands \in CandCounts : InterestResume(rec, cands)
  \/ \E d \in TickSteps : Tick(d)
  \/ \E d \in TickSteps : TickWaiting(d)

SpecConc == InitConc /\ [][NextConc]_vars

\* the grade mapper applied to one pair (rank, n)
InitGrade ==
  /\ version = "interestKR"
  /\ now = 1
  /\ cache = <<>>
  /\ pending = {}
  /\ resp = NoResponse
  /\ hist = <<>>
  /\ nreq = 0
  /\ calls = 0
  /\ gN \in 0..MaxGradeN
  /\ gRank \in 1..MaxGradeN
  /\ gOut = -1
  /\ text = Idle /\ agg = Idle /\ dash = Idle /\ fetch = Idle

ApplyGrade ==
  /\ gOut = -1
  /\ gOut' = computeGradeByRank(gRank, gN)
  /\ UNCHANGED <<version, now, cache, pending, resp, hist, nreq, calls, gRank, gN,
               text, agg, dash, fetch>>

NextGrade == ApplyGrade

SpecGrade == InitGrade /\ [][NextGrade]_vars

----------------------------------------------------------------------------
(* Term normalisation and score accumulation of fromInterestKR *)

\* the part of the handlers' state that the components exercised alone leave
\* as it is
handlerVars ==
  <<version, now, cache, pending, resp, hist, nreq, calls, gRank, gN, gOut>>

HandlersAtRest ==
  /\ version = "interestKR"
  /\ now = 1
  /\ cache = <<>>
  /\ pending = {}
  /\ resp = NoResponse
  /\ hist = <<>>
  /\ nreq = 0
  /\ calls = 0
  /\ gRank = 0 /\ gN = 0 /\ gOut = 0

\* String.prototype.trim at the end only
RECURSIVE trimEnd(_)
trimEnd(s) ==
  IF s = <<>> THEN s
  ELSE IF s[Len(s)] = " " THEN trimEnd(SubSeq(s, 1, Len(s) - 1))
  ELSE s

looksBroken(s) ==
  IF s = <<>> THEN TRUE
  ELSE IF "FFFD" \in Range(s) THEN TRUE
  ELSE LET cleaned == SelectSeq(s, LAMBDA c : ~(isLetter(c) \/ isDigit(c) \/ isSpace(c)))
       IN  Len(cleaned) * 100 >= Max(400, Len(s) * 45)

\* t.replace(/\s*\-\s*$/g, '')
stripTrailingDash(t) ==
  LET u == trimEnd(t)
  IN  IF u # <<>> /\ u[Len(u)] = "-" THEN trimEnd(SubSeq(u, 1, Len(u) - 1)) ELSE t

normalizeTerm(term) ==
  LET t1 == collapseSpaces(trim(term))
      t2 == [i \in DOMAIN t1 |-> IF t1[i] \in Brackets THEN " " ELSE t1[i]]
      t3 == trim(collapseSpaces(t2))
      t4 == stripTrailingDash(t3)
  IN  IF Len(t4) < 2 THEN <<>>
      ELSE IF looksBroken(t4) THEN <<>>
      ELSE t4

\* scores are kept in units of 1/12000, which makes every weight of the model
\* a whole number; posW = (L - i) / L is taken twelve-fold
posW12(L, i) == ((L - i) * 12) \div L

\* lengths of a feed for which posW12 is exact
FeedLengths == {1, 2, 3, 4}

\* 1000 * posW * sourceWeights.trends
trendsWeight(L, i) == 3200 * posW12(L, i) * 1000

\* 90 * posW * mult * sourceWeights.newsHome, mult in hundredths
newsHomeWeight(L, idx, mult100) == 108 * mult100 * 10 * posW12(L, idx)

\* 130 * posW * mult * sourceWeights.newsSearch, mult in hundredths
newsSearchWeight(L, idx, mult100) == 208 * mult100 * 10 * posW12(L, idx)

\* 90 * (1 - k / 25) * sourceWeights.ytSuggest
ytSuggestWeight(k) == 81 * (25 - k) * 480

\* the Map score as the sequence of its entries in insertion order
hasTerm(score, t) == \E i \in DOMAIN score : score[i].term = t

indexOfTerm(score, t) == CHOOSE i \in DOMAIN score : score[i].term = t

\* Set.prototype.add on the insertion-ordered elements of a Set
setAdd(elems, x) == IF x \in Range(elems) THEN elems ELSE Append(elems, x)

\* addScore recording the source of the first observation of a term only
addScore_firstSource(score, term, w, src) ==
  LET t == normalizeTerm(term)
  IN  IF t = <<>> THEN score
      ELSE IF hasTerm(score, t)
      THEN LET i == indexOfTerm(score, t)
           IN  [score EXCEPT ![i] = [term |-> t, score |-> @.score + w,
                                     sources |-> @.sources]]
      ELSE Append(score, [term |-> t, score |-> 0 + w, sources |-> <<src>>])

\* addScore assigning where the code adds
addScore_assigns(score, term, w, src) ==
  LET t == normalizeTerm(term)
  IN  IF t = <<>> THEN score
      ELSE IF hasTerm(score, t)
      THEN LET i == indexOfTerm(score, t)
           IN  [score EXCEPT ![i] = [term |-> t, score |-> w,
                                     sources |-> setAdd(@.sources, src)]]
      ELSE Append(score, [term |-> t, score |-> w, sources |-> <<src>>])

addScore(score, term, w, src) ==
  LET t == normalizeTerm(term)
  IN  IF t = <<>> THEN score
      ELSE IF hasTerm(score, t)
      THEN LET i == indexOfTerm(score, t)
           IN  [score EXCEPT ![i] = [term |-> t, score |-> @.score + w,
                                     sources |-> setAdd(@.sources, src)]]
      ELSE Append(score, [term |-> t, score |-> 0 + w, sources |-> <<src>>])

\* raw terms handed to addScore
RawTerms ==
  { <<"a", "b">>, <<" ", "a", "b", " ">>, <<"[", "a", "b", "]", " ", "-">>,
    <<"k_ga", " ", " ", "k_na">>, <<"a">>, <<"a", "b", "FFFD">>,
    <<"#", "!", "a", "-", "#">> }

\* the (weight, source) pairs of the call sites of addScore
Observations ==
  { [w |-> trendsWeight(2, 0), src |-> "trends"],
    [w |-> trendsWeight(4, 3), src |-> "trends"],
    [w |-> newsHomeWeight(3, 2, 135), src |-> "news"],
    [w |-> newsSearchWeight(1, 0, 155), src |-> "seed:A"],
    [w |-> newsSearchWeight(4, 3, 100), src |-> "seed:B"],
    [w |-> ytSuggestWeight(24), src |-> "ytSuggest"] }

InitAdd ==
  /\ HandlersAtRest
  /\ agg = [score |-> <<>>, adds |-> 0, last |-> Null]
  /\ text = Idle /\ dash = Idle /\ fetch = Idle

\* one call of addScore
AddObservation(term, o) ==
  /\ agg.adds < MaxAdds
  /\ agg' = [score |-> addScore(agg.score, term, o.w, o.src),
             adds |-> agg.adds + 1,
             last |-> [term |-> term, w |-> o.w, src |-> o.src]]
  /\ UNCHANGED <<handlerVars, text, dash, fetch>>

NextAdd == \E term \in RawTerms, o \in Observations : AddObservation(term, o)

SpecAdd == InitAdd /\ [][NextAdd]_vars

----------------------------------------------------------------------------
(* Tokenization of titles *)

\* the English and the Korean stop words of buildStop
StopEn ==
  << <<"t", "h", "e">>, <<"a">>, <<"a", "n">>, <<"a", "n", "d">>,
     <<"o", "r">>, <<"t", "o">>, <<"o", "f">>, <<"i", "n">>, <<"o", "n">>,
     <<"f", "o", "r">>, <<"w", "i", "t", "h">>, <<"i", "s">>,
     <<"a", "r", "e">>, <<"w", "a", "s">>, <<"w", "e", "r", "e">>,
     <<"b", "e">>, <<"f", "r", "o", "m">>, <<"v", "s">>, <<"v", "e", "r">>,
     <<"f", "e", "a", "t">>, <<"o", "f", "f", "i", "c", "i", "a", "l">>,
     <<"m", "v">>, <<"t", "e", "a", "s", "e", "r">>,
     <<"t", "r", "a", "i", "l", "e", "r">>, <<"f", "u", "l", "l">>,
     <<"l", "i", "v", "e">>, <<"e", "p", "i", "s", "o", "d", "e">>,
     <<"e", "p">>, <<"p", "a", "r", "t">>, <<"n", "e", "w">>,
     <<"u", "p", "d", "a", "t", "e">>, <<"t", "o", "d", "a", "y">>,
     <<"b", "r", "e", "a", "k", "i", "n", "g">>, <<"w", "h", "a", "t">>,
     <<"w", "h", "y">>, <<"h", "o", "w">>, <<"w", "h", "e", "n">>,
     <<"w", "h", "e", "r", "e">>, <<"w", "h", "o">> >>

StopKo ==
  << <<"k_yeong", "k_sang">>, <<"k_gong", "k_sik">>,
     <<"k_ra", "k_i", "k_beu">>, <<"k_myu", "k_bi">>, <<"k_ye", "k_go">>,
     <<"k_ti", "k_jeo">>, <<"k_ha", "k_i", "k_ra", "k_i", "k_teu">>,
     <<"k_ri", "k_byu">>, <<"k_ban", "k_eung">>, <<"k_yo", "k_yak">>,
     <<"k_nyu", "k_seu">>, <<"k_sok", "k_bo">>, <<"k_dan", "k_dok">>,
     <<"k_o", "k_neul">>, <<"k_ji", "k_geum">>, <<"k_choe", "k_sin">>,
     <<"k_hwa", "k_je">>, <<"k_sa", "k_geon">>, <<"k_sa", "k_go">>,
     <<"k_in", "k_teo", "k_byu">>, <<"k_chul", "k_yeon">>,
     <<"k_gong", "k_gae">>, <<"k_bal", "k_pyo">>, <<"k_non", "k_ran">>,
     <<"k_jeong", "k_ri">>, <<"k_chu", "k_cheuk">>, <<"k_gi", "k_ja">>,
     <<"k_bo", "k_do">>, <<"k_gwan", "k_ryeon">>, <<"k_non", "k_ui">>,
     <<"k_hwak", "k_in">>, <<"k_jeon", "k_mun">>, <<"k_bun", "k_seok">> >>

\* the Set of buildStop
buildStop == Range(StopEn) \cup Range(StopKo)

\* s.match(/[가-힣0-9]+/g): the maximal runs of Hangul syllables and digits
matchHangulRuns(s) ==
  splitWords([i \in DOMAIN s |-> IF isHangul(s[i]) \/ isDigit(s[i]) THEN s[i] ELSE " "])

\* replace(/[^\p{L}\p{N}\s]+/gu, ' '), replace(/\s+/g, ' '), trim, split(' '),
\* filter(Boolean)
splitLetterRuns(s) ==
  splitWords([i \in DOMAIN s |->
                IF isLetter(s[i]) \/ isDigit(s[i]) THEN s[i] ELSE " "])

\* /^\d+$/.test(w)
allDigits(w) == w # <<>> /\ \A i \in DOMAIN w : isDigit(w[i])

\* tokenizeOrdered splitting the Latin words without lowering the text first
tokenizeOrdered_caseKept(str) ==
  LET hangulWords == SelectSeq(matchHangulRuns(str), LAMBDA x : Len(x) >= 2)
      latinWords == SelectSeq(splitLetterRuns(str), LAMBDA x : Len(x) >= 2)
      keep(w) == ~allDigits(w) /\ w \notin buildStop
      out == SelectSeq(hangulWords, keep) \o SelectSeq(latinWords, keep)
  IN  uniq(out)

tokenizeOrdered(str) ==
  LET hangulWords == SelectSeq(matchHangulRuns(str), LAMBDA x : Len(x) >= 2)
      latinWords == SelectSeq(splitLetterRuns(toLowerCase(str)),
                              LAMBDA x : Len(x) >= 2)
      keep(w) == ~allDigits(w) /\ w \notin buildStop
      out == SelectSeq(hangulWords, keep) \o SelectSeq(latinWords, keep)
  IN  uniq(out)

\* extractPhrases: unigrams, then bigrams of at most 26 characters, then
\* trigrams of at most 30; mult is in hundredths
extractPhrases(title) ==
  LET toks == tokenizeOrdered(title)
      n == Len(toks)
      uni == [i \in 1..n |-> [p |-> toks[i], mult |-> 100]]
      bi == [i \in 1..Max(0, n - 1) |->
               [p |-> toks[i] \o <<" ">> \o toks[i + 1], mult |-> 135]]
      tri == [i \in 1..Max(0, n - 2) |->
                [p |-> toks[i] \o <<" ">> \o toks[i + 1] \o <<" ">> \o toks[i + 2],
                 mult |-> 155]]
  IN  uni \o SelectSeq(bi, LAMBDA x : Len(x.p) <= 26)
          \o SelectSeq(tri, LAMBDA x : Len(x.p) <= 30)

\* String.prototype.toUpperCase on one character and on a string
UpperChar(c) ==
  IF \E i \in 1..26 : LowerLetters[i] = c
  THEN UpperLetters[CHOOSE i \in 1..26 : LowerLetters[i] = c]
  ELSE c

toUpperCase(s) == [i \in DOMAIN s |-> UpperChar(s[i])]

capitalize(s) == [i \in DOMAIN s |-> IF i = 1 THEN UpperChar(s[i]) ELSE s[i]]

\* the words titles of the model are made of: stop words in several letter
\* cases, a number, and words that are no stop words
TitleWords ==
  { <<"t", "h", "e">>, <<"O", "F">>, <<"B", "r", "e", "a", "k", "i", "n", "g">>,
    <<"k_yeong", "k_sang">>, <<"k_sok", "k_bo">>, <<"1", "2">>,
    <<"t", "e", "s", "l", "a">>, <<"k_te", "k_seul", "k_ra">>, <<"K", "k_pap">> }

\* every stop word alone, in lower case, in upper case and capitalized
OneWordTitles ==
  UNION { {w, toUpperCase(w), capitalize(w)} : w \in buildStop }

\* titles of two to MaxTitleWords words, separated by single blanks, and the
\* same with more white space around the words
ManyWordTitles ==
  UNION { { joinWords(ws), <<" ">> \o joinWords(ws) \o <<" ", " ">> } :
          ws \in UNION { [1..n -> TitleWords] : n \in 2..MaxTitleWords } }

TokenTitles == OneWordTitles \cup ManyWordTitles

InitTokens ==
  /\ HandlersAtRest
  /\ text \in { [title |-> t, out |-> Null] : t \in TokenTitles }
  /\ agg = Idle /\ dash = Idle /\ fetch = Idle

\* tokenizeOrdered and extractPhrases applied to the title
ApplyTokenize ==
  /\ text.out = Null
  /\ text' = [text EXCEPT !.out = [toks |-> tokenizeOrdered(text.title),
                                   phrases |-> extractPhrases(text.title)]]
  /\ UNCHANGED <<handlerVars, agg, dash, fetch>>

NextTokens == ApplyTokenize

SpecTokens == InitTokens /\ [][NextTokens]_vars

----------------------------------------------------------------------------
(* Related terms of fromInterestKR *)

\* m.set(b, (m.get(b) || 0) + 1) on a Map kept as its entries in insertion
\* order
bumpCount(m, b) ==
  IF hasTerm(m, b)
  THEN [m EXCEPT ![indexOfTerm(m, b)].score = @ + 1]
  ELSE Append(m, [term |-> b, score |-> 1])

\* the inner loop of deriveFromTitlesForRelated for the token a of one title
RECURSIVE bumpOthers(_, _, _)
bumpOthers(m, toks, a) ==
  IF toks = <<>> THEN m
  ELSE LET before == bumpOthers(m, SubSeq(toks, 1, Len(toks) - 1), a)
           b == toks[Len(toks)]
       IN  IF b = a THEN before ELSE bumpCount(before, b)

\* related.get(a) after the loop over the titles; the map of the earlier
\* titles is complete (Len(m) >= 0) before the next title is read
RECURSIVE relatedMapOf(_, _)
relatedMapOf(titles, a) ==
  IF titles = <<>> THEN <<>>
  ELSE LET m == relatedMapOf(SubSeq(titles, 1, Len(titles) - 1), a)
           uniqToks == uniq(tokenizeOrdered(titles[Len(titles)]))
       IN  IF Len(m) >= 0 /\ a \in Range(uniqToks)
           THEN bumpOthers(m, uniqToks, a)
           ELSE m

\* relatedList of deriveFromTitlesForRelated
relatedList(titles, term) ==
  LET top == slice0(sortByScoreDesc(relatedMapOf(titles, term)), 12)
  IN  [i \in DOMAIN top |-> top[i].term]

SuffixSearch == <<" ", "k_geom", "k_saek">>

FallbackSuffixes ==
  << <<" ", "k_tteus">>, <<" ", "k_i", "k_yu">>, <<" ", "k_hu", "k_gi">>,
     <<" ", "k_sa", "k_geon">> >>

\* pickRelatedForTerm without the slice of the multi-word branch
pickRelatedForTerm_unsliced(term, titles) ==
  LET t == trim(term)
  IN  IF t = <<>> THEN <<>>
      ELSE IF " " \in Range(t)
      THEN LET parts == splitWords(t)
               rel == relatedList(titles, parts[Len(parts)])
           IN  uniq(<<t \o SuffixSearch>> \o rel)
      ELSE LET rel == relatedList(titles, t)
           IN  IF Len(rel) > 0 THEN slice0(rel, 12)
               ELSE slice0(uniq([i \in 1..4 |-> t \o FallbackSuffixes[i]]), 8)

\* pickRelatedForTerm; titles stands for the relatedList closure built from
\* them
pickRelatedForTerm(term, titles) ==
  LET t == trim(term)
  IN  IF t = <<>> THEN <<>>
      ELSE IF " " \in Range(t)
      THEN LET parts == splitWords(t)
               rel == relatedList(titles, parts[Len(parts)])
           IN  slice0(uniq(<<t \o SuffixSearch>> \o rel), 12)
      ELSE LET rel == relatedList(titles, t)
           IN  IF Len(rel) > 0 THEN slice0(rel, 12)
               ELSE slice0(uniq([i \in 1..4 |-> t \o FallbackSuffixes[i]]), 8)

\* titles collected for the related terms
RelatedTitles ==
  { <<"t", "e", "s", "l", "a", " ", "s", "t", "o", "c", "k", " ",
      "s", "o", "a", "r", "s">>,
    <<"t", "e", "s", "l", "a", " ", "a", "a", " ", "a", "b", " ", "a", "c", " ",
      "a", "d", " ", "a", "e", " ", "a", "f", " ", "a", "g", " ", "a", "h", " ",
      "a", "i", " ", "a", "j", " ", "a", "k", " ", "a", "l", " ", "a", "m">>,
    <<"k_te", "k_seul", "k_ra", " ", "k_ju", "k_ga", " ", "T", "e", "s", "l", "a">>,
    <<"T", "h", "e", " ", "o", "f">> }

\* terms of items
RelatedTerms ==
  { <<"t", "e", "s", "l", "a">>, <<"z", "z">>, <<"s", "t", "o", "c", "k">>,
    <<"t", "e", "s", "l", "a", " ", "s", "t", "o", "c", "k">>,
    <<"a", "a", " ", "t", "e", "s", "l", "a">>,
    <<"k_te", "k_seul", "k_ra">>, <<" ">> }

InitRelated ==
  /\ HandlersAtRest
  /\ text \in { [titles |-> ts, term |-> tm, related |-> Null] :
                ts \in UNION { [1..n -> RelatedTitles] : n \in 0..MaxRelatedTitles },
                tm \in RelatedTerms }
  /\ agg = Idle /\ dash = Idle /\ fetch = Idle

\* items[idx].related = pickRelatedForTerm(x.term, relatedList, hl)
ApplyPickRelated ==
  /\ text.related = Null
  /\ text' = [text EXCEPT !.related =
               [list |-> pickRelatedForTerm(text.term, text.titles)]]
  /\ UNCHANGED <<handlerVars, agg, dash, fetch>>

NextRelated == ApplyPickRelated

SpecRelated == InitRelated /\ [][NextRelated]_vars

----------------------------------------------------------------------------
(* Feed parsing and the googleTrends provider of the interestKR version *)

CdataOpen == "<![CDATA["
CdataClose == "]]>"

\* the first index from which s holds c; 0 when there is none
indexOfChar(s, c, from) ==
  IF \E j \in from..Len(s) : s[j] = c
  THEN CHOOSE j \in from..Len(s) : s[j] = c /\ \A k \in from..(j - 1) : s[k] # c
  ELSE 0

\* replace(/<!\[CDATA\[([\s\S]*?)\]\]>/g, '$1')
RECURSIVE unwrapCdata(_)
unwrapCdata(s) ==
  IF s = <<>> THEN <<>>
  ELSE LET close == indexOfChar(s, CdataClose, 2)
       IN  IF Head(s) = CdataOpen /\ close > 0
           THEN SubSeq(s, 2, close - 1) \o unwrapCdata(SubSeq(s, close + 1, Len(s)))
           ELSE <<Head(s)>> \o unwrapCdata(Tail(s))

\* the entity replacements of decodeXml
decodeEntity(c) ==
  CASE c = "&lt;" -> "<"
    [] c = "&gt;" -> ">"
    [] c = "&amp;" -> "&"
    [] c = "&quot;" -> "\""
    [] c = "&#39;" -> "'"
    [] c = "&apos;" -> "'"
    [] OTHER -> c

decodeXml(s) ==
  LET u == unwrapCdata(s) IN [i \in DOMAIN u |-> decodeEntity(u[i])]

\* replace(/<[^>]+>/g, '')
RECURSIVE stripHtml(_)
stripHtml(s) ==
  IF s = <<>> THEN <<>>
  ELSE LET gt == indexOfChar(s, ">", 2)
       IN  IF Head(s) = "<" /\ gt >= 3
           THEN stripHtml(SubSeq(s, gt + 1, Len(s)))
           ELSE <<Head(s)>> \o stripHtml(Tail(s))

\* pushTitle: the title that is pushed, or <<>> when none is
pushTitle(raw) ==
  LET t == trim(stripHtml(decodeXml(raw)))
  IN  IF Len(t) >= 2 THEN <<t>> ELSE <<>>

RECURSIVE pushTitles(_, _)
pushTitles(xml, kind) ==
  IF xml = <<>> THEN <<>>
  ELSE (IF Head(xml).kind = kind THEN pushTitle(Head(xml).title) ELSE <<>>)
       \o pushTitles(Tail(xml), kind)

\* parseFeedTitles keeping every title, as the source does
parseFeedTitles(xmlText) ==
  pushTitles(xmlText, "item") \o pushTitles(xmlText, "entry")

\* fromGoogleTrendsRss of the interestKR version; r is the result of fetchText
fromGoogleTrendsRss(r) ==
  IF ~r.ok \/ r.text = <<>> THEN Throw("Google Trends RSS fetch")
  ELSE LET terms == slice0(parseFeedTitles(r.text), 120)
           sliced == slice0(terms, 80)
       IN  IF Len(terms) < 3 THEN Throw("trends rss parse")
           ELSE Ok([items |-> [i \in DOMAIN sliced |->
                                 [term |-> sliced[i], related |-> <<>>, rank |-> i,
                                  grade |-> computeGradeByRank(i, Len(sliced))]],
                    meta |-> [source |-> "googleTrends", isMock |-> FALSE]])

\* raw contents of <title> elements
RawTitles ==
  { <<"a", "b">>,
    <<"a", "FFFD", "b">>,
    <<CdataOpen, "k_te", "k_seul", "k_ra", CdataClose>>,
    <<"a", "&amp;", "b">>,
    <<"&lt;", "b", "&gt;", "c", "d">>,
    <<" ", "a", " ">> }

\* <item> and <entry> elements of a feed
FeedElements ==
  { [kind |-> "item", title |-> raw] : raw \in RawTitles }
    \cup { [kind |-> "entry", title |-> <<"c", "d">>],
           [kind |-> "entry", title |-> <<"FFFD", "FFFD">>] }

FeedTexts == UNION { [1..n -> FeedElements] : n \in 0..MaxFeedItems }

InitFeed ==
  /\ HandlersAtRest
  /\ text \in { [r |-> [ok |-> TRUE, text |-> f], out |-> Null] : f \in FeedTexts }
               \cup { [r |-> [ok |-> FALSE, text |-> <<>>], out |-> Null] }
  /\ agg = Idle /\ dash = Idle /\ fetch = Idle

\* dispatchProvider with source googleTrends
ApplyGoogleTrends ==
  /\ text.out = Null
  /\ text' = [text EXCEPT !.out = [titles |-> parseFeedTitles(text.r.text),
                                   result |-> fromGoogleTrendsRss(text.r)]]
  /\ UNCHANGED <<handlerVars, agg, dash, fetch>>

NextFeed == ApplyGoogleTrends

SpecFeed == InitFeed /\ [][NextFeed]_vars

----------------------------------------------------------------------------
(* The trend-dashboard handler (src/trend-dashboard/api/trends.js) *)

\* a query string is the sequence of its [k, v] pairs; the names of one
\* query are distinct and the values are character sequences
hasParam(query, k) == \E i \in DOMAIN query : query[i].k = k

\* url.searchParams.get(k) of a parameter that was sent
getParam(query, k) ==
  query[CHOOSE i \in DOMAIN query : query[i].k = k /\ \A j \in 1..(i - 1) : query[j].k # k].v

\* pickStr(url.searchParams.get(k), fallback)
pickStr(query, k, fallback) ==
  IF hasParam(query, k) THEN trim(getParam(query, k)) ELSE fallback

DigitChars == <<"0", "1", "2", "3", "4", "5", "6", "7", "8", "9">>

RECURSIVE digitsValue(_)
digitsValue(w) ==
  IF w = <<>> THEN 0
  ELSE 10 * digitsValue(SubSeq(w, 1, Len(w) - 1))
       + (CHOOSE d \in 0..9 : DigitChars[d + 1] = w[Len(w)])

\* Number(n) of a string of digits, of white space, or of other text
toNumber(s) ==
  LET t == trim(s)
  IN  IF t = <<>> THEN Num(0)
      ELSE IF \A i \in DOMAIN t : isDigit(t[i]) THEN Num(digitsValue(t))
      ELSE NaN

clamp(n, min, max) ==
  LET x == toNumber(n)
  IN  IF x = NaN THEN min ELSE Max(min, Min(max, x.num))

StoryKR == <<"s", "t", "o", "r", "y", "K", "R">>

AllowedSources ==
  { <<"s", "t", "o", "r", "y", "k", "r">>,
    <<"g", "o", "o", "g", "l", "e", "t", "r", "e", "n", "d", "s">>,
    <<"y", "o", "u", "t", "u", "b", "e", "s", "u", "g", "g", "e", "s", "t">>,
    <<"n", "e", "w", "s">>, <<"r", "e", "d", "d", "i", "t">>,
    <<"h", "a", "c", "k", "e", "r", "n", "e", "w", "s">>,
    <<"m", "o", "c", "k">> }

\* normalizeSource of the dashboard handler
normalizeSourceDash(query) ==
  LET x == toLowerCase(pickStr(query, "source", StoryKR))
  IN  IF x \in AllowedSources THEN x ELSE toLowerCase(StoryKR)

\* the parameter names of the model in the order of the > operator on strings
ParamNames == <<"cacheTtlSec", "force", "source">>

nameRank(k) == CHOOSE i \in DOMAIN ParamNames : ParamNames[i] = k

\* entries.filter(([k]) => k !== "force")
withoutForce(query) == SelectSeq(query, LAMBDA p : p.k # "force")

\* sort(([a], [b]) => (a > b ? 1 : -1)) on distinct names
sortByName(params) ==
  LET n == Len(params)
      pos == [i \in 1..n |->
               1 + Cardinality({j \in 1..n :
                     nameRank(params[j].k) < nameRank(params[i].k)})] \o <<>>
      inv == [p \in 1..n |-> CHOOSE i \in 1..n : pos[i] = p] \o <<>>
  IN  [p \in 1..n |-> params[inv[p]]] \o <<>>

\* cacheKeyFromReq with the parameters left in the order they were sent
cacheKeyFromReq_unsorted(query) == withoutForce(query)

\* cacheKeyFromReq: the sorted pairs stand for the joined string, the path
\* being the same for every request
cacheKeyFromReq(query) == sortByName(withoutForce(query))

\* lines 265-276: what the handler reads from the request
dashRequest(id, query) ==
  [id |-> id, query |-> query,
   source |-> normalizeSourceDash(query),
   force |-> pickStr(query, "force", <<>>) = <<"1">>,
   cacheTtlSec |-> clamp(IF hasParam(query, "cacheTtlSec") /\ getParam(query, "cacheTtlSec") # <<>>
                         THEN getParam(query, "cacheTtlSec") ELSE <<"6", "0">>, 10, 3600),
   key |-> cacheKeyFromReq(query)]

\* line 278: the entry is served
servesCached(rq, c, t) ==
  /\ ~rq.force
  /\ rq.key \in DOMAIN c
  /\ t - c[rq.key].savedAt < rq.cacheTtlSec * 1000

DashResponse(rq, status, cached, data, fetched) ==
  [id |-> rq.id, query |-> rq.query, status |-> status, cached |-> cached,
   data |-> data, fetched |-> fetched]

P(k, v) == [k |-> k, v |-> v]

\* the query strings of the requests
DashQueries ==
  { <<P("source", <<"m", "o", "c", "k">>), P("cacheTtlSec", <<"1", "0">>)>>,
    <<P("cacheTtlSec", <<"1", "0">>), P("source", <<"m", "o", "c", "k">>)>>,
    <<P("force", <<"1">>), P("source", <<"m", "o", "c", "k">>),
      P("cacheTtlSec", <<"1", "0">>)>>,
    <<P("source", <<"N", "e", "w", "s">>)>>,
    <<P("source", <<"N", "e", "w", "s">>), P("force", <<"1">>)>>,
    <<P("force", <<"0">>), P("source", <<"N", "e", "w", "s">>)>> }

\* steps of Date.now() in milliseconds
DashTickSteps == {1, 9999}

InitDash ==
  /\ HandlersAtRest
  /\ text = Idle /\ agg = Idle /\ fetch = Idle
  /\ dash = [now |-> 0, ticks |-> 0, n |-> 0, cache |-> <<>>, pend |-> {},
             resp |-> Null]

\* line 256: a preflight request
DashOptions ==
  /\ dash.n < MaxDashRequests
  /\ dash' = [dash EXCEPT !.n = @ + 1,
                          !.resp = [id |-> dash.n + 1, query |-> <<>>, status |-> 200,
                                    cached |-> "none", data |-> Null,
                                    fetched |-> FALSE]]
  /\ UNCHANGED <<handlerVars, text, agg, fetch>>

\* lines 278-288: the entry of the key is served
DashHit(query) ==
  LET rq == dashRequest(dash.n + 1, query)
  IN  /\ dash.n < MaxDashRequests
      /\ servesCached(rq, dash.cache, dash.now)
      /\ dash' = [dash EXCEPT !.n = @ + 1,
                              !.resp = DashResponse(rq, 200, "true",
                                                    dash.cache[rq.key].data, FALSE)]
      /\ UNCHANGED <<handlerVars, text, agg, fetch>>

\* lines 293-303 and 441-451: source mock, which awaits nothing
DashMock(query) ==
  LET rq == dashRequest(dash.n + 1, query)
      data == [by |-> rq.id]
  IN  /\ dash.n < MaxDashRequests
      /\ ~servesCached(rq, dash.cache, dash.now)
      /\ rq.source = <<"m", "o", "c", "k">>
      /\ dash' = [dash EXCEPT !.n = @ + 1,
                              !.cache = put(@, rq.key, [savedAt |-> dash.now, data |-> data]),
                              !.resp = DashResponse(rq, 200, "false", data, FALSE)]
      /\ UNCHANGED <<handlerVars, text, agg, fetch>>

\* lines 305-380: every other source awaits fetchWithRetry
DashAwait(query) ==
  LET rq == dashRequest(dash.n + 1, query)
  IN  /\ dash.n < MaxDashRequests
      /\ ~servesCached(rq, dash.cache, dash.now)
      /\ rq.source # <<"m", "o", "c", "k">>
      /\ dash' = [dash EXCEPT !.n = @ + 1, !.pend = @ \cup {rq}]
      /\ UNCHANGED <<handlerVars, text, agg, fetch>>

\* lines 441-451: the fetches of the request gave its data
DashCollected(rq) ==
  LET data == [by |-> rq.id]
  IN  /\ rq \in dash.pend
      /\ dash' = [dash EXCEPT !.pend = @ \ {rq},
                              !.cache = put(@, rq.key, [savedAt |-> dash.now, data |-> data]),
                              !.resp = DashResponse(rq, 200, "false", data, TRUE)]
      /\ UNCHANGED <<handlerVars, text, agg, fetch>>

\* lines 452-463: a fetch of the request threw
DashFailed(rq) ==
  /\ rq \in dash.pend
  /\ dash' = [dash EXCEPT !.pend = @ \ {rq},
                          !.resp = DashResponse(rq, 500, "none", Null, TRUE)]
  /\ UNCHANGED <<handlerVars, text, agg, fetch>>

DashTick(d) ==
  /\ dash.ticks < MaxDashTicks
  /\ dash.n < MaxDashRequests \/ dash.pend # {}
  /\ dash' = [dash EXCEPT !.now = @ + d, !.ticks = @ + 1]
  /\ UNCHANGED <<handlerVars, text, agg, fetch>>

NextDash ==
  \/ DashOptions
  \/ \E query \in DashQueries : DashHit(query)
  \/ \E query \in DashQueries : DashMock(query)
  \/ \E query \in DashQueries : DashAwait(query)
  \/ \E rq \in dash.pend : DashCollected(rq)
  \/ \E rq \in dash.pend : DashFailed(rq)
  \/ \E d \in DashTickSteps : DashTick(d)

SpecDash == InitDash /\ [][NextDash]_vars

----------------------------------------------------------------------------
(* Upstream calls: fetchText and fetchWithRetry *)

\* opts.timeoutMs of fetchText, and the retry argument of fetchWithRetry
TimeoutOpts == {Undefined, Num(500), Num(9000), Num(60000)}
RetryArgs == {1, 2}

\* one step of the clock while a call waits, in milliseconds
WaitStepMs == 1000

Awaiting == {"awaitFetch", "awaitText", "awaitErrText"}

InitFetch ==
  /\ HandlersAtRest
  /\ text = Idle /\ agg = Idle /\ dash = Idle
  /\ fetch \in { [kind |-> "fetchText", opt |-> o, retry |-> 0, pc |-> "start",
                  timer |-> "none", timeoutMs |-> 0, aborted |-> FALSE,
                  waited |-> 0, i |-> 0, ok |-> FALSE, attempts |-> 0,
                  slept |-> <<>>, errs |-> <<>>, lastErr |-> Null, thrown |-> Null] :
                 o \in TimeoutOpts }
               \cup
               { [kind |-> "fetchWithRetry", opt |-> Undefined, retry |-> n, pc |-> "start",
                  timer |-> "none", timeoutMs |-> 0, aborted |-> FALSE,
                  waited |-> 0, i |-> 0, ok |-> FALSE, attempts |-> 0,
                  slept |-> <<>>, errs |-> <<>>, lastErr |-> Null, thrown |-> Null] :
                 n \in RetryArgs }

\* fetchText up to its await of fetch: the abort timer is set
FetchTextCall ==
  /\ fetch.kind = "fetchText" /\ fetch.pc = "start"
  /\ fetch' = [fetch EXCEPT !.timeoutMs = clampInt(nullish(fetch.opt, Num(9000)), 1000, 20000),
                            !.timer = "armed", !.pc = "awaitFetch"]
  /\ UNCHANGED <<handlerVars, text, agg, dash>>

\* fetchWithRetry up to its await of fetch: no signal and no timer
FetchRetryCall ==
  /\ fetch.kind = "fetchWithRetry" /\ fetch.pc = "start"
  /\ fetch' = [fetch EXCEPT !.i = 0, !.attempts = 1, !.pc = "awaitFetch"]
  /\ UNCHANGED <<handlerVars, text, agg, dash>>

\* the error of attempt i: the HTTP error made from the status line, or the
\* rejection of fetch
HttpError(i) == [attempt |-> i, name |-> "http"]
NetworkError(i) == [attempt |-> i, name |-> "network"]

\* sleep(250 * Math.pow(2, i))
backoffMs(i) == 250 * 2^i

\* the catch block of fetchWithRetry that keeps the first error it saw
afterCatch_keepsFirstError(f, e) ==
  LET g == [f EXCEPT !.lastErr = IF @ = Null THEN e ELSE @, !.errs = Append(@, e)]
  IN  IF f.i < f.retry
      THEN [g EXCEPT !.slept = Append(@, backoffMs(f.i)), !.pc = "sleep"]
      ELSE [g EXCEPT !.pc = "threw", !.thrown = g.lastErr]

\* the catch block of fetchWithRetry, and the throw after the loop when the
\* last attempt has failed; errs and slept record what was caught and slept
afterCatch(f, e) ==
  LET g == [f EXCEPT !.lastErr = e, !.errs = Append(@, e)]
  IN  IF f.i < f.retry
      THEN [g EXCEPT !.slept = Append(@, backoffMs(f.i)), !.pc = "sleep"]
      ELSE [g EXCEPT !.pc = "threw", !.thrown = g.lastErr]

\* the upstream answers with a status line
UpstreamHeaders(ok) ==
  /\ fetch.pc = "awaitFetch" /\ ~fetch.aborted
  /\ fetch' = IF fetch.kind = "fetchText"
              THEN [fetch EXCEPT !.ok = ok, !.pc = "awaitText"]
              ELSE IF ok THEN [fetch EXCEPT !.ok = TRUE, !.pc = "returned"]
              ELSE [fetch EXCEPT !.ok = FALSE, !.pc = "awaitErrText"]
  /\ UNCHANGED <<handlerVars, text, agg, dash>>

\* the body has been read: fetchText returns through finally, fetchWithRetry
\* throws the HTTP error into its catch block
UpstreamBody ==
  /\ fetch.pc \in {"awaitText", "awaitErrText"} /\ ~fetch.aborted
  /\ fetch' = IF fetch.kind = "fetchText"
              THEN [fetch EXCEPT !.timer = "cleared", !.pc = "returned"]
              ELSE afterCatch(fetch, HttpError(fetch.i))
  /\ UNCHANGED <<handlerVars, text, agg, dash>>

\* the connection fails
UpstreamError ==
  /\ fetch.pc \in Awaiting /\ ~fetch.aborted
  /\ fetch' = IF fetch.kind = "fetchText"
              THEN [fetch EXCEPT !.timer = "cleared", !.pc = "threw"]
              ELSE afterCatch(fetch, IF fetch.pc = "awaitErrText"
                                     THEN HttpError(fetch.i)
                                     ELSE NetworkError(fetch.i))
  /\ UNCHANGED <<handlerVars, text, agg, dash>>

\* the callback of setTimeout: controller.abort()
TimerFires ==
  /\ fetch.timer = "armed" /\ fetch.pc \in Awaiting
  /\ fetch.waited * WaitStepMs >= fetch.timeoutMs
  /\ fetch' = [fetch EXCEPT !.timer = "fired", !.aborted = TRUE]
  /\ UNCHANGED <<handlerVars, text, agg, dash>>

\* the aborted await rejects and fetchText leaves through finally
AbortRejects ==
  /\ fetch.aborted /\ fetch.pc \in Awaiting
  /\ fetch' = [fetch EXCEPT !.timer = "cleared", !.pc = "threw"]
  /\ UNCHANGED <<handlerVars, text, agg, dash>>

\* await sleep(250 * Math.pow(2, i)); continue
SleepDone ==
  /\ fetch.pc = "sleep"
  /\ fetch' = [fetch EXCEPT !.i = @ + 1, !.attempts = @ + 1, !.pc = "awaitFetch"]
  /\ UNCHANGED <<handlerVars, text, agg, dash>>

\* time passes while the call waits; an armed timer fires when it is due
WaitOn ==
  /\ fetch.pc \in Awaiting /\ ~fetch.aborted
  /\ fetch.waited < MaxWaitSteps
  /\ ~(fetch.timer = "armed" /\ fetch.waited * WaitStepMs >= fetch.timeoutMs)
  /\ fetch' = [fetch EXCEPT !.waited = @ + 1]
  /\ UNCHANGED <<handlerVars, text, agg, dash>>

NextFetch ==
  \/ FetchTextCall
  \/ FetchRetryCall
  \/ \E ok \in BOOLEAN : UpstreamHeaders(ok)
  \/ UpstreamBody
  \/ UpstreamError
  \/ TimerFires
  \/ AbortRejects
  \/ SleepDone
  \/ WaitOn

SpecFetch == InitFetch /\ [][NextFetch]_vars

----------------------------------------------------------------------------
(* The seed phase of fromInterestKR *)

seedFetchConcurrency == 6

\* String(t).split(' - ')[0]
RECURSIVE beforeDash(_)
beforeDash(t) ==
  IF t = <<>> THEN <<>>
  ELSE IF Len(t) >= 3 /\ SubSeq(t, 1, 3) = <<" ", "-", " ">> THEN <<>>
  ELSE <<Head(t)>> \o beforeDash(Tail(t))

\* what the news search answers for seeds[i]: the same in every execution.
\* The first two seeds have titles, the third an error status, the fourth a
\* failed connection, the fifth an empty text, the others a feed of no item
SeedFeed(i) ==
  CASE i = 0 -> [ok |-> TRUE, threw |-> FALSE, empty |-> FALSE,
                 titles |-> << <<"a", "a", " ", "b", "b", " ", "-", " ", "c", "c">> >>]
    [] i = 1 -> [ok |-> TRUE, threw |-> FALSE, empty |-> FALSE,
                 titles |-> << <<"b", "b", " ", "a", "a">> >>]
    [] i = 2 -> [ok |-> FALSE, threw |-> FALSE, empty |-> FALSE, titles |-> <<>>]
    [] i = 3 -> [ok |-> FALSE, threw |-> TRUE, empty |-> TRUE, titles |-> <<>>]
    [] i = 4 -> [ok |-> TRUE, threw |-> FALSE, empty |-> TRUE, titles |-> <<>>]
    [] OTHER -> [ok |-> TRUE, threw |-> FALSE, empty |-> FALSE, titles |-> <<>>]

\* what the YouTube suggest call answers for seeds[i]
SeedSuggest(i) ==
  IF i = 0 THEN << <<"a", "a">>, <<"d", "d">> >> ELSE <<>>

seedSrc(i) == <<"seed", i>>
ytSrc == <<"ytSuggest">>

\* for (const { p, mult } of phrases) addScore(p, w, `seed:${seed}`)
RECURSIVE addPhrases(_, _, _, _, _)
addPhrases(score, phrases, L, idx, i) ==
  IF phrases = <<>> THEN score
  ELSE LET before == addPhrases(score, SubSeq(phrases, 1, Len(phrases) - 1), L, idx, i)
           x == phrases[Len(phrases)]
       IN  addScore(before, x.p, newsSearchWeight(L, idx, x.mult), seedSrc(i))

\* titles.forEach((title, idx) => ...)
RECURSIVE addTitles(_, _, _, _)
addTitles(score, titles, upto, i) ==
  IF upto = 0 THEN score
  ELSE addPhrases(addTitles(score, titles, upto - 1, i),
                  extractPhrases(titles[upto]), Max(1, Len(titles)), upto - 1, i)

\* the news search for seeds[i] that throws as if the worker had no catch
foldNewsOf_rethrows(st, i, r) ==
  LET titles == [j \in DOMAIN r.titles |-> beforeDash(r.titles[j])]
  IN  IF r.threw THEN [st EXCEPT !.phase = "threw"]
      ELSE IF r.ok /\ ~r.empty
      THEN [st EXCEPT !.titles = @ \o titles,
                      !.score = addTitles(@, titles, Len(titles), i)]
      ELSE [st EXCEPT !.errors = @ + 1]

\* lines 1330-1350: the answer r of the news search for seeds[i] is folded
\* in, or its failure is noted
foldNewsOf(st, i, r) ==
  LET titles == [j \in DOMAIN r.titles |-> beforeDash(r.titles[j])]
  IN  IF ~r.threw /\ r.ok /\ ~r.empty
      THEN [st EXCEPT !.titles = @ \o titles,
                      !.score = addTitles(@, titles, Len(titles), i)]
      ELSE [st EXCEPT !.errors = @ + 1]

\* lines 1334-1350: the answer of the news search for seeds[i] is folded in
foldNews(st, i) == foldNewsOf(st, i, SeedFeed(i))

\* for (let k = 0; k < Math.min(25, sugg.length); k++) addScore(s, w, 'ytSuggest')
RECURSIVE addSuggestions(_, _, _)
addSuggestions(score, sugg, upto) ==
  IF upto = 0 THEN score
  ELSE addScore(addSuggestions(score, sugg, upto - 1), sugg[upto],
                ytSuggestWeight(upto - 1), ytSrc)

\* lines 1355-1361 and fetchYouTubeSuggest: the suggestions are folded in and
\* kept in the memo
foldSuggest(st, i) ==
  LET sugg == SeedSuggest(i)
  IN  [st EXCEPT !.score = addSuggestions(@, sugg, Min(25, Len(sugg))),
                 !.memo = @ \cup {i}]

\* one turn of while (si < seeds.length) { const i = si++; ... await fetchText }
\* with the increment done before the read
seedWorkerEnter_preIncrement(st) ==
  IF st.si < st.n
  THEN [st EXCEPT !.si = @ + 1,
                  !.running = @ \cup {[i |-> st.si + 1, at |-> "news", net |-> TRUE]},
                  !.fetched = [j \in DOMAIN @ |-> IF j = st.si + 1 THEN @[j] + 1 ELSE @[j]]]
  ELSE [st EXCEPT !.finished = @ + 1]

\* one turn of while (si < seeds.length) { const i = si++; ... await fetchText },
\* or the return of the worker
seedWorkerEnter(st) ==
  IF st.si < st.n
  THEN [st EXCEPT !.si = @ + 1,
                  !.running = @ \cup {[i |-> st.si, at |-> "news", net |-> TRUE]},
                  !.fetched = [j \in DOMAIN @ |-> IF j = st.si THEN @[j] + 1 ELSE @[j]]]
  ELSE [st EXCEPT !.finished = @ + 1]

\* Array.from({ length: seedFetchConcurrency }, () => seedWorker())
RECURSIVE startWorkers(_, _)
startWorkers(st, count) ==
  IF count = 0 THEN st ELSE seedWorkerEnter(startWorkers(st, count - 1))

leave(st, w) == [st EXCEPT !.running = @ \ {w}]

\* the counts of seeds; more than seedFetchConcurrency at the upper end
SeedCounts == {1, 2, MaxSeeds}

\* terms the trends and news steps left in the score map, none of them a term
\* of the seed feeds
BaseCounts == {0, 200}

InitSeed ==
  /\ HandlersAtRest
  /\ text = Idle /\ dash = Idle /\ fetch = Idle
  /\ agg \in { [n |-> n, expand |-> e, base |-> b, phase |-> "start", si |-> 0,
                running |-> {}, finished |-> 0, fetched |-> [j \in 0..(n - 1) |-> 0],
                memo |-> m, titles |-> <<>>, score |-> <<>>, errors |-> 0,
                top |-> <<>>] :
               n \in SeedCounts, e \in BOOLEAN, b \in BaseCounts, m \in {{}, {1}} }

\* line 1369: the workers are created, each running up to its first await
SeedStart ==
  /\ agg.phase = "start"
  /\ agg' = [startWorkers(agg, seedFetchConcurrency) EXCEPT !.phase = "seeding"]
  /\ UNCHANGED <<handlerVars, text, dash, fetch>>

\* the news search of a worker settles: lines 1334-1353, then either the
\* await of fetchYouTubeSuggest or the next turn of the loop
NewsSettles(w) ==
  /\ agg.phase = "seeding"
  /\ w \in agg.running /\ w.at = "news"
  /\ LET st == leave(foldNews(agg, w.i), w)
     IN  agg' = IF agg.expand
                THEN [st EXCEPT !.running = @ \cup
                        {[i |-> w.i, at |-> "yt", net |-> w.i \notin agg.memo]}]
                ELSE seedWorkerEnter(st)
  /\ UNCHANGED <<handlerVars, text, dash, fetch>>

\* fetchYouTubeSuggest of a worker settles: lines 1355-1361, then the next
\* turn of the loop
SuggestSettles(w) ==
  /\ agg.phase = "seeding"
  /\ w \in agg.running /\ w.at = "yt"
  /\ agg' = seedWorkerEnter(leave(foldSuggest(agg, w.i), w))
  /\ UNCHANGED <<handlerVars, text, dash, fetch>>

\* lines 1369-1384: Promise.all resolves, the candidates are counted and
\* sorted
SeedRank ==
  /\ agg.phase = "seeding"
  /\ agg.finished = seedFetchConcurrency
  /\ agg' = IF agg.base + Len(agg.score) < MIN_CANDIDATES
            THEN [agg EXCEPT !.phase = "threw"]
            ELSE [agg EXCEPT !.phase = "ranked", !.top = sortByScoreDesc(agg.score)]
  /\ UNCHANGED <<handlerVars, text, dash, fetch>>

NextSeed ==
  \/ SeedStart
  \/ \E w \in agg.running : NewsSettles(w)
  \/ \E w \in agg.running : SuggestSettles(w)
  \/ SeedRank

SpecSeed == InitSeed /\ [][NextSeed]_vars

----------------------------------------------------------------------------
(* A pass of fromInterestKR whose upstream calls may fail *)

trendsSrc == <<"trends">>
newsSrc == <<"news">>

\* what a feed call gives: the titles parsed from a text, an error status,
\* an empty text or an exception. more counts the further distinct terms of
\* the answer, which the model does not follow one by one
FeedAnswer(titles, more) ==
  [ok |-> TRUE, threw |-> FALSE, empty |-> FALSE, titles |-> titles, more |-> more]

FeedStatusError ==
  [ok |-> FALSE, threw |-> FALSE, empty |-> FALSE, titles |-> <<>>, more |-> 0]

FeedEmptyText ==
  [ok |-> TRUE, threw |-> FALSE, empty |-> TRUE, titles |-> <<>>, more |-> 0]

FeedThrows ==
  [ok |-> FALSE, threw |-> TRUE, empty |-> TRUE, titles |-> <<>>, more |-> 0]

TrendsAnswers ==
  { FeedAnswer(<< <<"a", "a">>, <<"d", "d", " ", "e", "e">> >>, MIN_CANDIDATES),
    FeedAnswer(<< <<"a", "a">> >>, 0),
    FeedStatusError, FeedThrows }

HomeAnswers ==
  { FeedAnswer(<< <<"a", "a", " ", "b", "b", " ", "-", " ", "c", "c">> >>, 0),
    FeedStatusError, FeedEmptyText, FeedThrows }

SearchAnswers ==
  { FeedAnswer(<< <<"b", "b", " ", "a", "a">> >>, 0), FeedStatusError, FeedThrows }

\* what fetchYouTubeSuggest meets: a list, an error status, or an exception
SuggestAnswers ==
  { [ok |-> TRUE, threw |-> FALSE, sugg |-> << <<"a", "a">>, <<"f", "f">> >>],
    [ok |-> FALSE, threw |-> FALSE, sugg |-> <<>>],
    [ok |-> FALSE, threw |-> TRUE, sugg |-> <<>>] }

\* the list kept by an earlier pass for a seed of the memo
MemoAnswer == [ok |-> TRUE, threw |-> FALSE, sugg |-> << <<"a", "a">> >>]

failed(r) == r.threw \/ ~r.ok \/ ("empty" \in DOMAIN r /\ r.empty)

\* terms.forEach((t, i) => addScore(t, w, 'trends'))
RECURSIVE addTrendTerms(_, _, _)
addTrendTerms(score, terms, upto) ==
  IF upto = 0 THEN score
  ELSE addScore(addTrendTerms(score, terms, upto - 1), terms[upto],
                trendsWeight(Max(1, Len(terms)), upto - 1), trendsSrc)

\* lines 1275-1293: the trends feed
foldTrends(st, r) ==
  LET terms == slice0(r.titles, 200)
  IN  IF ~r.threw /\ r.ok /\ ~r.empty
      THEN [st EXCEPT !.score = addTrendTerms(@, terms, Len(terms)),
                      !.base = @ + r.more]
      ELSE [st EXCEPT !.errors = @ + 1]

\* for (const { p, mult } of phrases) addScore(p, w, 'news')
RECURSIVE addHomePhrases(_, _, _, _)
addHomePhrases(score, phrases, L, idx) ==
  IF phrases = <<>> THEN score
  ELSE LET before == addHomePhrases(score, SubSeq(phrases, 1, Len(phrases) - 1), L, idx)
           x == phrases[Len(phrases)]
       IN  addScore(before, x.p, newsHomeWeight(L, idx, x.mult), newsSrc)

RECURSIVE addHomeTitles(_, _, _)
addHomeTitles(score, titles, upto) ==
  IF upto = 0 THEN score
  ELSE addHomePhrases(addHomeTitles(score, titles, upto - 1),
                      extractPhrases(titles[upto]), Max(1, Len(titles)), upto - 1)

\* lines 1296-1317: the news home feed
foldHome(st, r) ==
  LET all == slice0(r.titles, 200)
      titles == [j \in DOMAIN all |-> beforeDash(all[j])]
  IN  IF ~r.threw /\ r.ok /\ ~r.empty
      THEN [st EXCEPT !.score = addHomeTitles(@, titles, Len(titles)),
                      !.base = @ + r.more]
      ELSE [st EXCEPT !.errors = @ + 1]

\* lines 1353-1365 with fetchYouTubeSuggest: an exception is caught by the
\* worker, an error status gives an empty list, a list is kept in the memo
foldSuggestOf(st, i, r, fetched) ==
  IF r.threw THEN [st EXCEPT !.errors = @ + 1]
  ELSE IF ~r.ok THEN st
  ELSE [st EXCEPT !.score = addSuggestions(@, r.sugg, Min(25, Len(r.sugg))),
                  !.memo = IF fetched THEN @ \cup {i} ELSE @]

PassSeedCounts == 1..MaxPassSeeds

InitPass ==
  /\ HandlersAtRest
  /\ text = Idle /\ dash = Idle /\ fetch = Idle
  /\ agg \in { [n |-> n, expand |-> e, base |-> 0, phase |-> "trends", si |-> 0,
                running |-> {}, finished |-> 0, fetched |-> [j \in 0..(n - 1) |-> 0],
                looked |-> [j \in 0..(n - 1) |-> 0], feeds |-> {},
                memo |-> m, titles |-> <<>>, score |-> <<>>, errors |-> 0,
                top |-> <<>>, last |-> [call |-> <<"none">>, failed |-> FALSE]] :
               n \in PassSeedCounts, e \in BOOLEAN, m \in {{}, {0}} }

\* lines 1275-1293
PassTrends(r) ==
  /\ agg.phase = "trends"
  /\ agg' = [foldTrends(agg, r) EXCEPT !.phase = "newsHome", !.feeds = @ \cup {"trends"},
                                        !.last = [call |-> <<"trends">>, failed |-> failed(r)]]
  /\ UNCHANGED <<handlerVars, text, dash, fetch>>

\* lines 1296-1317
PassHome(r) ==
  /\ agg.phase = "newsHome"
  /\ agg' = [foldHome(agg, r) EXCEPT !.phase = "start", !.feeds = @ \cup {"newsHome"},
                                      !.last = [call |-> <<"newsHome">>, failed |-> failed(r)]]
  /\ UNCHANGED <<handlerVars, text, dash, fetch>>

\* line 1369: the workers are created
PassStart ==
  /\ agg.phase = "start"
  /\ agg' = [startWorkers(agg, seedFetchConcurrency) EXCEPT !.phase = "seeding"]
  /\ UNCHANGED <<handlerVars, text, dash, fetch>>

\* lines 1330-1353: the news search of a worker settles with the answer r
PassNews(w, r) ==
  /\ agg.phase = "seeding"
  /\ w \in agg.running /\ w.at = "news"
  /\ LET st == [leave(foldNewsOf(agg, w.i, r), w) EXCEPT
                  !.last = [call |-> <<"news", w.i>>, failed |-> failed(r)]]
     IN  agg' = IF st.phase # "seeding" THEN st
                ELSE IF agg.expand
                THEN [st EXCEPT !.running = @ \cup
                        {[i |-> w.i, at |-> "yt", net |-> w.i \notin agg.memo]},
                                !.looked = [@ EXCEPT ![w.i] = @ + 1]]
                ELSE seedWorkerEnter(st)
  /\ UNCHANGED <<handlerVars, text, dash, fetch>>

\* lines 1353-1365: the suggest lookup of a worker settles, with the answer r
\* of the upstream or with the list of the memo
PassSuggest(w, r) ==
  /\ agg.phase = "seeding"
  /\ w \in agg.running /\ w.at = "yt"
  /\ r = MemoAnswer \/ w.net
  /\ w.net \/ r = MemoAnswer
  /\ agg' = seedWorkerEnter(
              [leave(foldSuggestOf(agg, w.i, r, w.net), w) EXCEPT
                 !.last = [call |-> <<"yt", w.i>>, failed |-> failed(r)]])
  /\ UNCHANGED <<handlerVars, text, dash, fetch>>

\* lines 1369-1384: Promise.all resolves, the candidates are counted and
\* sorted
PassRank ==
  /\ agg.phase = "seeding"
  /\ agg.finished = seedFetchConcurrency
  /\ agg' = IF agg.base + Len(agg.score) < MIN_CANDIDATES
            THEN [agg EXCEPT !.phase = "threw"]
            ELSE [agg EXCEPT !.phase = "ranked", !.top = sortByScoreDesc(agg.score)]
  /\ UNCHANGED <<handlerVars, text, dash, fetch>>

NextPass ==
  \/ \E r \in TrendsAnswers : PassTrends(r)
  \/ \E r \in HomeAnswers : PassHome(r)
  \/ PassStart
  \/ \E w \in agg.running, r \in SearchAnswers : PassNews(w, r)
  \/ \E w \in agg.running, r \in SuggestAnswers \cup {MemoAnswer} : PassSuggest(w, r)
  \/ PassRank

SpecPass == InitPass /\ [][NextPass]_vars

----------------------------------------------------------------------------
(* fromRedditRssOnly: one feed per subreddit, fetched in turn *)

REDDIT_MIN_TITLES == 5

\* what fetchText gives for one subreddit feed: r.ok, whether r.text is
\* empty, and the number of titles parseFeedTitles finds in it
RedditAnswers ==
  { [ok |-> TRUE, empty |-> FALSE, count |-> 3],
    [ok |-> TRUE, empty |-> FALSE, count |-> 1],
    [ok |-> TRUE, empty |-> TRUE, count |-> 0],
    [ok |-> FALSE, empty |-> FALSE, count |-> 2] }

\* if (r.ok && r.text) { for (const x of t) titles.push(x) }
\* else errors.push({ sub, rssStatus: r.status })
redditCollect(st, r) ==
  IF r.ok /\ ~r.empty
  THEN [st EXCEPT !.titles = @ \o [j \in 1..r.count |-> <<st.k, j>>]]
  ELSE [st EXCEPT !.errors = Append(@, st.k)]

\* if (titles.length < 5): the first version answers with mock data, the
\* second throws
redditOutcome(st) ==
  IF Len(st.titles) < REDDIT_MIN_TITLES
  THEN (IF st.version = 1 THEN "mock" ELSE "threw")
  ELSE "derived"

InitReddit ==
  /\ HandlersAtRest
  /\ text = Idle /\ dash = Idle /\ fetch = Idle
  /\ agg \in { [version |-> v, subs |-> n, k |-> 1, phase |-> "fetching",
                titles |-> <<>>, errors |-> <<>>, timedOut |-> {}] :
               v \in {1, 2}, n \in 1..MaxSubs }

\* const r = await fetchText(url, { timeoutMs: 9000, ... }) settles with a
\* response, and the loop goes on to the next subreddit
RedditResponse(r) ==
  /\ agg.phase = "fetching"
  /\ agg.k <= agg.subs
  /\ agg' = [redditCollect(agg, r) EXCEPT !.k = @ + 1]
  /\ UNCHANGED <<handlerVars, text, dash, fetch>>

\* the timer of fetchText aborts the request: the await throws inside the
\* loop, which has no try, and the promise of fromRedditRssOnly is rejected
RedditTimeout ==
  /\ agg.phase = "fetching"
  /\ agg.k <= agg.subs
  /\ agg' = [agg EXCEPT !.phase = "rejected", !.timedOut = @ \cup {agg.k}]
  /\ UNCHANGED <<handlerVars, text, dash, fetch>>

\* the loop is over: the titles are counted
RedditCount ==
  /\ agg.phase = "fetching"
  /\ agg.k > agg.subs
  /\ agg' = [agg EXCEPT !.phase = redditOutcome(agg)]
  /\ UNCHANGED <<handlerVars, text, dash, fetch>>

NextReddit ==
  \/ \E r \in RedditAnswers : RedditResponse(r)
  \/ RedditTimeout
  \/ RedditCount

SpecReddit == InitReddit /\ [][NextReddit]_vars

----------------------------------------------------------------------------
(* The storyKR branch of the dashboard handler: the suggest lookups *)

MAX_CHECKED == 12

\* what getYouTubeSuggest(c.angle) ends with: a list of so many suggestions
\* (a body that is not JSON gives none), or the error fetchWithRetry throws
\* after its last attempt, with the status of the answer if there was one
SuggestLookups ==
  { [threw |-> FALSE, count |-> 0, status |-> 0],
    [threw |-> FALSE, count |-> 3, status |-> 0],
    [threw |-> FALSE, count |-> 20, status |-> 0],
    [threw |-> TRUE, count |-> 0, status |-> 429],
    [threw |-> TRUE, count |-> 0, status |-> 0] }

\* checked.sort((a, b) => b.suggestCount - a.suggestCount): stable
RECURSIVE sortBySuggestCount(_)
sortBySuggestCount(checked) ==
  IF checked = <<>> THEN <<>>
  ELSE LET n == Len(checked)
           rest == sortBySuggestCount(SubSeq(checked, 1, n - 1))
           x == checked[n]
           k == Cardinality({j \in DOMAIN rest : rest[j].suggestCount >= x.suggestCount})
       IN  SubSeq(rest, 1, k) \o <<x>> \o SubSeq(rest, k + 1, Len(rest))

\* const status = e?.status && Number.isInteger(e.status) ? e.status : 500
statusOfError(r) == IF r.status # 0 THEN r.status ELSE 500

\* checked.slice(0, limit).map((x, i) => ({ rank: i + 1, ... score: x.suggestCount }))
storyTop(checked, limit) ==
  LET sorted == sortBySuggestCount(checked)
  IN  [j \in 1..Min(limit, Len(sorted)) |->
         [rank |-> j, cand |-> sorted[j].cand, score |-> sorted[j].suggestCount]]

InitStory ==
  /\ HandlersAtRest
  /\ text = Idle /\ agg = Idle /\ fetch = Idle
  /\ dash \in { [candidates |-> n, limit |-> l, i |-> 0, checked |-> <<>>,
                 failedAt |-> {}, phase |-> "checking", status |-> 0, top |-> <<>>] :
                n \in 1..MaxCandidates, l \in {1, 30} }

\* one turn of the loop: the lookup for candidates[i] returns and the
\* candidate is pushed with its suggestCount
StoryChecked(r) ==
  /\ dash.phase = "checking"
  /\ dash.i < Min(MAX_CHECKED, dash.candidates)
  /\ ~r.threw
  /\ dash' = [dash EXCEPT !.i = @ + 1,
                          !.checked = Append(@, [cand |-> dash.i, suggestCount |-> r.count])]
  /\ UNCHANGED <<handlerVars, text, agg, fetch>>

\* the lookup for candidates[i] throws: the loop has no try, so the catch of
\* the handler answers with the status of the error, or 500
StoryLookupThrows(r) ==
  /\ dash.phase = "checking"
  /\ dash.i < Min(MAX_CHECKED, dash.candidates)
  /\ r.threw
  /\ dash' = [dash EXCEPT !.phase = "answered", !.failedAt = @ \cup {dash.i},
                          !.status = statusOfError(r)]
  /\ UNCHANGED <<handlerVars, text, agg, fetch>>

\* the loop is over: the candidates are sorted, cut and sent with 200
StoryAnswer ==
  /\ dash.phase = "checking"
  /\ dash.i = Min(MAX_CHECKED, dash.candidates)
  /\ dash' = [dash EXCEPT !.phase = "answered", !.status = 200,
                          !.top = storyTop(dash.checked, dash.limit)]
  /\ UNCHANGED <<handlerVars, text, agg, fetch>>

NextStory ==
  \/ \E r \in SuggestLookups : StoryChecked(r)
  \/ \E r \in SuggestLookups : StoryLookupThrows(r)
  \/ StoryAnswer

SpecStory == InitStory /\ [][NextStory]_vars

----------------------------------------------------------------------------
(* The raw scores of fromGoogleTrendsRss *)

\* Math.floor(Math.random() * 10)
Jitters == 0..9

\* const base = Math.max(30, 220 - idx * 2 + Math.floor(Math.random() * 10))
trendsBase(idx, jitter) == Max(30, 220 - idx * 2 + jitter)

InitRank ==
  /\ HandlersAtRest
  /\ agg = Idle /\ dash = Idle /\ fetch = Idle
  /\ text \in { [terms |-> n, items |-> <<>>, payload |-> Null] : n \in 3..MaxRankTerms }

\* terms.map((term, idx) => ...) builds the item of the next term
RankItem(jitter) ==
  /\ text.payload = Null
  /\ Len(text.items) < text.terms
  /\ text' = [text EXCEPT !.items =
                Append(@, [term |-> Len(text.items),
                           scoreRaw |-> trendsBase(Len(text.items), jitter)])]
  /\ UNCHANGED <<handlerVars, agg, dash, fetch>>

\* items.slice(0, 80) and sliced.map((x, i) => ({ ...x, rank: i + 1, grade }))
RankPayload ==
  /\ text.payload = Null
  /\ Len(text.items) = text.terms
  /\ text' = [text EXCEPT !.payload =
                LET sliced == slice0(text.items, 80)
                IN  [items |-> [i \in DOMAIN sliced |->
                       [term |-> sliced[i].term, scoreRaw |-> sliced[i].scoreRaw,
                        rank |-> i, grade |-> computeGradeByRank(i, Len(sliced))]]]]
  /\ UNCHANGED <<handlerVars, agg, dash, fetch>>

NextRank ==
  \/ \E jitter \in Jitters : RankItem(jitter)
  \/ RankPayload

SpecRank == InitRank /\ [][NextRank]_vars

----------------------------------------------------------------------------
(* The cache key of the interestKR handler and the seed parameters *)

DEFAULT_SEED_COUNT == 70
DEFAULT_MAX_SEEDS == 24
MAX_SEEDS_MIN == 8
MAX_SEEDS_MAX == 40

\* req.query.x ?? ''
orEmpty(v) == IF v = Absent THEN "" ELSE v

\* line 909: the key of a request that leaves source, tf, geo, hl, cat, q and
\* limit at their defaults
seedCacheKey(rq) ==
  [interestKey("interestKR", <<>>, DEFAULT_LIMIT) EXCEPT
     !.seeds = orEmpty(rq.seeds), !.seedMode = orEmpty(rq.seedMode),
     !.expand = orEmpty(rq.expand)]

\* parseSeeds on the values of the model: the number of distinct seeds
parseSeedsCount(seedsStr) == IF seedsStr = "a,b" THEN 2 ELSE 0

\* lines 1240-1255: the seeds and options a pass of fromInterestKR works
\* with, as it reports them in meta.debug
seedPlan(rq) ==
  LET seedMode == IF orEmpty(rq.seedMode) = "" THEN "replace" ELSE rq.seedMode
      custom == parseSeedsCount(orEmpty(rq.seeds))
      seedsUsed == IF custom = 0 THEN [list |-> "default", count |-> DEFAULT_SEED_COUNT]
                   ELSE IF seedMode = "merge"
                   THEN [list |-> "merged", count |-> DEFAULT_SEED_COUNT + custom]
                   ELSE [list |-> "custom", count |-> custom]
      maxSeedCalls == clampInt(nullish(rq.maxSeeds, Num(DEFAULT_MAX_SEEDS)),
                               MAX_SEEDS_MIN, MAX_SEEDS_MAX)
  IN  [seedsUsed |-> [seedsUsed EXCEPT !.count = Min(@, maxSeedCalls)],
       maxSeeds |-> maxSeedCalls,
       expand |-> orEmpty(rq.expand)]

SeedRequests ==
  { [seeds |-> s, seedMode |-> m, expand |-> e, maxSeeds |-> x] :
      s \in {Absent, "a,b"}, m \in {Absent, "merge"}, e \in {Absent, "yt"},
      x \in {Undefined, Num(8), Num(40)} }

InitKey ==
  /\ HandlersAtRest
  /\ text = Idle /\ agg = Idle /\ dash = Idle /\ fetch = Idle

\* lines 911-912: a fresh entry is served
SeedFreshHit(rq) ==
  /\ nreq < MaxKeyRequests
  /\ LET key == seedCacheKey(rq)
         fresh == memGet(cache, key, FRESH_TTL_INTEREST, now)
     IN  /\ fresh # Null
         /\ resp' = Response([id |-> nreq + 1, rq |-> rq, key |-> key], 200, "fresh", fresh)
  /\ nreq' = nreq + 1
  /\ UNCHANGED <<version, now, cache, pending, hist, calls, gRank, gN, gOut,
                 text, agg, dash, fetch>>

\* lines 914-947: no fresh entry; the pass runs and succeeds, or it throws
\* and the last payload of the key is served, or there is none
SeedRun(rq, ok) ==
  /\ nreq < MaxKeyRequests
  /\ LET key == seedCacheKey(rq)
         rec == [id |-> nreq + 1, rq |-> rq, key |-> key]
         stale == memGetAny(cache, key)
         payload == IF ok THEN [debug |-> seedPlan(rq), stale |-> FALSE]
                    ELSE [stale EXCEPT !.stale = TRUE]
     IN  /\ memGet(cache, key, FRESH_TTL_INTEREST, now) = Null
         /\ IF ~ok /\ stale = Null
            THEN /\ resp' = Response(rec, 503, "error", Null)
                 /\ cache' = cache
            ELSE /\ resp' = Response(rec, 200, IF ok THEN "live" ELSE "stale", payload)
                 /\ cache' = memSetAny(memSet(cache, key, payload, now), key, payload, now)
  /\ nreq' = nreq + 1
  /\ calls' = calls + 1
  /\ UNCHANGED <<version, now, pending, hist, gRank, gN, gOut, text, agg, dash, fetch>>

\* time passes between two requests
SeedTick(d) ==
  /\ nreq < MaxKeyRequests
  /\ now + d <= 1 + MaxKeyRequests * (FRESH_TTL_INTEREST + 1)
  /\ now' = now + d
  /\ UNCHANGED <<version, cache, pending, resp, hist, nreq, calls, gRank, gN, gOut,
                 text, agg, dash, fetch>>

NextKey ==
  \/ \E rq \in SeedRequests : SeedFreshHit(rq)
  \/ \E rq \in SeedRequests, ok \in BOOLEAN : SeedRun(rq, ok)
  \/ SeedTick(FRESH_TTL_INTEREST + 1)

SpecKey == InitKey /\ [][NextKey]_vars

----------------------------------------------------------------------------
(* Channel resolution of src/api/youtube_analyzer.js, both handlers *)

CHANNELS_LIST_UNITS == 1
SEARCH_LIST_UNITS == 100

\* the forms of the input: a channel id, the URLs /channel/UC.., /@handle,
\* /user/NAME, /c/NAME, /watch and one of another path, @handle, a bare name
InputForms ==
  {"UCid", "channelUrl", "handleUrl", "userUrl", "customUrl", "watchUrl",
   "otherUrl", "@handle", "bare"}

\* parseChannelInput of the resolve action (line 166): a bare name is read as
\* the path of a youtube.com URL
parseChannelInput(form) ==
  CASE form \in {"UCid", "channelUrl"} -> "channelId"
    [] form \in {"handleUrl", "@handle"} -> "handle"
    [] form = "userUrl" -> "username"
    [] form \in {"customUrl", "otherUrl", "bare"} -> "custom"
    [] OTHER -> "maybeHandleOrUsername"

\* parseChannelInput of the analyzer (line 447)
parseChannelInput2(form) ==
  CASE form \in {"UCid", "channelUrl"} -> "id"
    [] form \in {"handleUrl", "@handle"} -> "handle"
    [] OTHER -> "query"

\* a call is issued: it is counted with the quota units of its endpoint
issue(st, endpoint, by) ==
  [st EXCEPT !.calls = Append(@, endpoint),
             !.units = @ + (IF endpoint = "search.list" THEN SEARCH_LIST_UNITS
                            ELSE CHANNELS_LIST_UNITS),
             !.pc = by]

finish(st, outcome) == [st EXCEPT !.pc = "done", !.outcome = outcome]

\* resolveChannelId up to its first await (lines 213-286)
resolveChannelId(st) ==
  LET kind == parseChannelInput(st.form)
  IN  CASE kind = "channelId" -> issue(st, "channels.list", "id")
        [] kind = "handle" -> issue(st, "channels.list", "forHandle")
        [] kind = "username" -> issue(st, "channels.list", "forUsername")
        [] kind = "maybeHandleOrUsername" -> issue(st, "channels.list", "guessHandle")
        [] OTHER -> IF ~st.allowSearchFallback THEN finish(st, "threw")
                    ELSE issue(st, "search.list", "search")

\* resolveChannelId after the call it waited for has answered with an item,
\* with no item, or with an error status (lines 228-309)
resolveChannelIdOn(st, r) ==
  IF r = "error" THEN finish(st, "threw")
  ELSE IF st.pc \in {"id", "forHandle", "forUsername", "details"}
  THEN finish(st, IF r = "item" THEN "resolved" ELSE "threw")
  ELSE IF st.pc = "guessHandle"
  THEN (IF r = "item" THEN finish(st, "resolved")
        ELSE issue(st, "channels.list", "guessUsername"))
  ELSE IF st.pc = "guessUsername"
  THEN (IF r = "item" THEN finish(st, "resolved")
        ELSE IF ~st.allowSearchFallback THEN finish(st, "failed")
        ELSE issue(st, "search.list", "search"))
  ELSE (IF r = "item" THEN issue(st, "channels.list", "details")
        ELSE finish(st, "threw"))

\* lines 495-499 with every input sent to the search
afterDirect_alwaysSearches(st) == issue(st, "search.list", "search")

\* lines 495-499: the direct lookups gave nothing
afterDirect(st) ==
  IF ~st.allowSearchFallback THEN finish(st, "failed")
  ELSE issue(st, "search.list", "search")

\* resolveChannel up to its first await (lines 481-499)
resolveChannel(st) ==
  LET type == parseChannelInput2(st.form)
  IN  CASE type = "id" -> issue(st, "channels.list", "id")
        [] type = "handle" -> issue(st, "channels.list", "forHandle")
        [] OTHER -> afterDirect(st)

\* resolveChannel after the call it waited for has answered; channelsByHandle
\* catches the error of its call (lines 484-501, 513-526)
resolveChannelOn(st, r) ==
  IF st.pc = "forHandle"
  THEN (IF r = "item" THEN finish(st, "resolved") ELSE afterDirect(st))
  ELSE IF r = "error" THEN finish(st, "threw")
  ELSE IF st.pc = "id"
  THEN (IF r = "item" THEN finish(st, "resolved") ELSE afterDirect(st))
  ELSE IF st.pc = "search"
  THEN (IF r = "item" THEN issue(st, "channels.list", "details")
        ELSE finish(st, "failed"))
  ELSE finish(st, IF r = "item" THEN "resolved" ELSE "failed")

InitResolve ==
  /\ HandlersAtRest
  /\ text = Idle /\ dash = Idle /\ fetch = Idle
  /\ agg \in { [handler |-> h, form |-> f, allowSearchFallback |-> a, pc |-> "start",
                calls |-> <<>>, units |-> 0, outcome |-> "none"] :
               h \in {"resolve", "analyzer"}, f \in InputForms, a \in BOOLEAN }

\* the input is parsed and the first call, if any, is issued
ResolveStart ==
  /\ agg.pc = "start"
  /\ agg' = IF agg.handler = "resolve" THEN resolveChannelId(agg) ELSE resolveChannel(agg)
  /\ UNCHANGED <<handlerVars, text, dash, fetch>>

\* the YouTube API answers the call the resolution waits for
ResolveAnswer(r) ==
  /\ agg.pc \notin {"start", "done"}
  /\ agg' = IF agg.handler = "resolve" THEN resolveChannelIdOn(agg, r)
            ELSE resolveChannelOn(agg, r)
  /\ UNCHANGED <<handlerVars, text, dash, fetch>>

NextResolve ==
  \/ ResolveStart
  \/ \E r \in {"item", "none", "error"} : ResolveAnswer(r)

SpecResolve == InitResolve /\ [][NextResolve]_vars

----------------------------------------------------------------------------
(* Properties *)

\* the response answers a request that reached the cache lookup
Answered == resp.id > 0 /\ resp.rq # Null

\* the cache holds an entry for k whose age is at most the TTL
HoldsFresh(k) == k \in DOMAIN cache /\ now - cache[k].ts <= FreshTtl

\* the step starts the handling of a request that reaches the cache lookup
StartsRequest == nreq' = nreq + 1 /\ ~(resp'.id = nreq' /\ resp'.rq = Null)

\* the cache key of the request the step starts
StartedKey ==
  IF pending' # pending THEN (CHOOSE r \in pending' \ pending : TRUE).key
  ELSE resp'.key

\* C1: in both handlers a request that reaches the cache lookup calls
\* dispatchProvider exactly when the cache holds no entry for its key of an
\* age of at most the TTL (45 000 ms, 60 000 ms); on a fresh hit the response
\* is 200 with the stored items and no provider call is made
C1_ProviderIffNotFresh ==
  [][StartsRequest =>
       LET k == StartedKey
       IN  /\ (calls' = calls + 1) <=> ~HoldsFresh(k)
           /\ calls' \in {calls, calls + 1}
           /\ HoldsFresh(k) =>
                /\ resp'.id = nreq'
                /\ resp'.status = 200
                /\ resp'.body.items = cache[k].data.items]_vars

\* a fresh hit on an entry whose age is exactly the TTL
C1_Witness ==
  /\ Answered
  /\ resp.path = "fresh"
  /\ resp.id = nreq
  /\ now - cache[resp.key].ts = FreshTtl
  /\ calls = 1

\* the items the most recent successful provider run for key k produced for
\* the requests of that key (the key fixes q and limit)
GoodRunItems(k) ==
  interestQFilter(interestKRRun(hist[k].goodCands, k.limit, 0).payload, k.q).items

\* the response answers the request whose provider call was the most recent
\* one for key k
AnswersLastCall(k) == Answered /\ resp.key = k /\ resp.id = hist[k].lastId

C3_FailureWithoutEntry ==
  version = "interestKR" =>
    \A k \in DOMAIN hist :
      (hist[k].last = "threw" /\ ~hist[k].hasGood) =>
        /\ k \notin DOMAIN cache
        /\ AnswersLastCall(k) =>
             /\ resp.status = 503
             /\ resp.body.error = "provider_failed"
             /\ "items" \notin DOMAIN resp.body

C3_Witness ==
  /\ version = "interestKR"
  /\ Answered
  /\ resp.key.source = "interestKR"
  /\ resp.key \in DOMAIN hist
  /\ hist[resp.key].last = "threw"
  /\ ~hist[resp.key].hasGood
  /\ resp.id = hist[resp.key].lastId
  /\ resp.status = 503

\* the stored payload and time stamp of key k differ across the step
EntryWritten(k) ==
  \/ k \notin DOMAIN cache
  \/ cache'[k].ts # cache[k].ts
  \/ cache'[k].data.items # cache[k].data.items
  \/ cache'[k].data.meta.stale # cache[k].data.meta.stale

\* C4: in both handlers a cache entry is created or overwritten only by a
\* request whose provider call succeeded; a request whose provider call failed
\* leaves the entry and its time stamp as they were
C4_OnlySuccessWrites ==
  [][\A k \in DOMAIN cache' :
       EntryWritten(k) =>
         /\ k \in DOMAIN hist'
         /\ hist'[k].last = "ok"
         /\ resp'.id = hist'[k].lastId]_vars

C6_NoOlderPayloadStored ==
  [][\A k \in DOMAIN cache \cap DOMAIN cache' :
       cache'[k].data.meta.fetchedAt >= cache[k].data.meta.fetchedAt]_vars

\* C7: fromInterestKR throws whenever the feeds yield fewer than 200
\* candidates, and the payload of a run that succeeded holds at least 200
\* items before the q filter is applied
C7_AtLeast200 ==
  version = "interestKR" =>
    \A k \in DOMAIN hist :
      k.source = "interestKR" =>
        /\ hist[k].lastCands < 200 => hist[k].last = "threw"
        /\ hist[k].last = "ok" =>
             /\ Len(interestKRRun(hist[k].lastCands, k.limit, 0).payload.items) >= 200
             /\ (AnswersLastCall(k) /\ k.q = <<>>) => Len(resp.body.items) >= 200

C7_Witness ==
  /\ version = "interestKR"
  /\ \E k \in DOMAIN hist :
       /\ k.source = "interestKR"
       /\ hist[k].lastCands = 199
       /\ hist[k].last = "threw"
  /\ \E k \in DOMAIN hist :
       /\ hist[k].last = "ok"
       /\ hist[k].lastCands = 200

\* C8: interestKR handler: the rank values of the items of a 200 response are
\* 1..k in list order, also when the q filter removed items
C8_RanksAreDense ==
  (version = "interestKR" /\ Answered /\ resp.status = 200) =>
    \A i \in 1..Len(resp.body.items) : resp.body.items[i].rank = i

\* the limit of a request: the limit parameter, 2000 when it is missing, 200
\* when it is not a number, kept within 200..5000
LimitOf(p) ==
  IF p = Undefined THEN 2000
  ELSE IF "num" \notin DOMAIN p THEN 200
  ELSE IF p.num < 200 THEN 200
  ELSE IF p.num > 5000 THEN 5000
  ELSE p.num

\* C9: interestKR handler: a 200 response never holds more than limit items,
\* limit being the limit parameter (default 2000) clamped to 200..5000, with a
\* parameter that is not a number taken as 200
C9_AtMostLimitItems ==
  (version = "interestKR" /\ Answered) =>
    /\ resp.key.limit = LimitOf(resp.rq.limit)
    /\ resp.status = 200 =>
         /\ Len(resp.body.items) <= LimitOf(resp.rq.limit)
         /\ resp.body.meta.limit = LimitOf(resp.rq.limit)

\* a run that found more candidates than the limit allows
C9_Witness ==
  /\ version = "interestKR"
  /\ Answered
  /\ resp.status = 200
  /\ resp.rq.limit = Num(150)
  /\ hist[resp.key].lastCands = 203
  /\ Len(resp.body.items) = 200

\* C10: computeGradeByRank(rank, n) is an integer in 0..100 for 1 <= rank <= n,
\* 100 for rank 1, 0 for rank n when n > 1, and 100 whenever n <= 1
C10_GradeRange ==
  gOut # -1 =>
    /\ (1 <= gRank /\ gRank <= gN) => gOut \in 0..100
    /\ (gRank = 1 /\ gN >= 1) => gOut = 100
    /\ (gRank = gN /\ gN > 1) => gOut = 0
    /\ gN <= 1 => gOut = 100

C10_Witness == gOut = 0 /\ gRank = gN /\ gN > 1

\* C11: for every pool size n and all ranks r1 < r2 within 1..n the grade of
\* r1 is at least the grade of r2
C11_GradeNonIncreasing ==
  (gOut # -1 /\ gRank <= gN) =>
    \A r2 \in (gRank + 1)..gN : gOut >= computeGradeByRank(r2, gN)

C11_Witness == gN = 20 /\ gRank = 3 /\ gOut = 89

\* C12 as stated: for a fixed n the grade difference of two adjacent ranks is
\* the same for every pair of adjacent ranks in 1..n
C12_EqualSteps ==
  (gOut # -1 /\ gRank < gN) =>
    \A r \in 1..(gN - 1) :
      computeGradeByRank(r, gN) - computeGradeByRank(r + 1, gN)
        = gOut - computeGradeByRank(gRank + 1, gN)

\* C12: for a fixed n the grade difference of two adjacent ranks is 100/(n-1)
\* rounded down or rounded up (the same for every pair when n - 1 divides 100),
\* so two such differences are at most 1 apart
C12_StepsWithinOne ==
  (gOut # -1 /\ gRank < gN) =>
    LET step == gOut - computeGradeByRank(gRank + 1, gN)
        low == 100 \div (gN - 1)
    IN  /\ step \in {low, low + 1}
        /\ 100 % (gN - 1) = 0 => step = low

C12_Witness ==
  gN = 20 /\ gRank = 2 /\ gOut = 95 /\ gOut - computeGradeByRank(3, 20) = 6

\* the accumulated score of term t in a score map (0 when it is not there)
ScoreOf(score, t) == IF hasTerm(score, t) THEN score[indexOfTerm(score, t)].score ELSE 0

SourcesOf(score, t) ==
  IF hasTerm(score, t) THEN score[indexOfTerm(score, t)].sources ELSE <<>>

NoDuplicates(seq) == \A i, j \in DOMAIN seq : seq[i] = seq[j] => i = j

\* C13: every weight passed to addScore is positive; an accepted observation
\* (its normalised term is not empty) strictly increases the score of that
\* term; no call lowers the score of any term; the sources of every term stay
\* free of duplicates; a term seen before that is observed from a source new
\* to it gains exactly one source
C13_AddScoreAdditive ==
  [][agg'.adds = agg.adds + 1 =>
       LET o == agg'.last
           t == normalizeTerm(o.term)
       IN  /\ o.w > 0
           /\ t # <<>> => ScoreOf(agg'.score, t) > ScoreOf(agg.score, t)
           /\ \A i \in DOMAIN agg.score :
                ScoreOf(agg'.score, agg.score[i].term) >= agg.score[i].score
           /\ \A i \in DOMAIN agg'.score : NoDuplicates(agg'.score[i].sources)
           /\ (t # <<>> /\ hasTerm(agg.score, t)) =>
                Len(SourcesOf(agg'.score, t)) =
                  Len(SourcesOf(agg.score, t))
                    + (IF o.src \in Range(SourcesOf(agg.score, t)) THEN 0 ELSE 1)]_vars

\* a term observed from a second source
C13_Witness ==
  /\ agg # Idle
  /\ "adds" \in DOMAIN agg
  /\ agg.adds = 2
  /\ \E i \in DOMAIN agg.score :
       /\ agg.score[i].sources = <<"trends", "seed:A">>
       /\ agg.last.src = "seed:A"
       /\ agg.last.term # agg.score[i].term

\* the title consists of stop words only, in any letter case, separated by
\* white space
OnlyStopWords(title) ==
  /\ \A i \in DOMAIN title : isLetter(title[i]) \/ isSpace(title[i])
  /\ \A w \in Range(splitWords(title)) :
       \E sw \in buildStop : [i \in DOMAIN w |-> LowerChar(w[i])] = sw

\* C16: tokenizeOrdered applied to a title made up of white-space separated
\* stop words only (the Latin ones in any letter case) returns the empty
\* list, and extractPhrases returns no phrase
C16_StopWordsOnly ==
  ("title" \in DOMAIN text /\ text.out # Null /\ OnlyStopWords(text.title)) =>
    /\ text.out.toks = <<>>
    /\ text.out.phrases = <<>>

\* a title of two stop words, one Latin in upper case and one Korean
C16_Witness ==
  /\ "title" \in DOMAIN text
  /\ text.title = <<"O", "F", " ", "k_sok", "k_bo">>
  /\ text.out # Null
  /\ text.out.toks = <<>>

\* C15: for every item of an interestKR payload the related list never holds
\* the term of the item and has at most 12 entries, for terms of one word and
\* of several words alike
C15_RelatedExcludesTerm ==
  ("related" \in DOMAIN text /\ text.related # Null) =>
    /\ Len(text.related.list) <= 12
    /\ text.term \notin Range(text.related.list)
    /\ trim(text.term) \notin Range(text.related.list)

\* a term of several words whose last word has twelve related terms
C15_Witness ==
  /\ "related" \in DOMAIN text
  /\ text.related # Null
  /\ text.term = <<"a", "a", " ", "t", "e", "s", "l", "a">>
  /\ Len(text.related.list) = 12
  /\ text.related.list[1] = text.term \o SuffixSearch

\* C14: no title returned by parseFeedTitles and no term or related entry of
\* a payload of the googleTrends provider contains the decoding-failure
\* marker U+FFFD, whatever the feed holds
C14_NoReplacementChar ==
  ("r" \in DOMAIN text /\ text.out # Null /\ text.out.result.ok) =>
    /\ \A i \in DOMAIN text.out.titles : "FFFD" \notin Range(text.out.titles[i])
    /\ \A i \in DOMAIN text.out.result.payload.items :
         LET x == text.out.result.payload.items[i]
         IN  /\ "FFFD" \notin Range(x.term)
             /\ \A j \in DOMAIN x.related : "FFFD" \notin Range(x.related[j])

\* the parameters of a query other than force, whatever their order
ParamsOf(query) == {query[i] : i \in {j \in DOMAIN query : query[j].k # "force"}}

CarriesForce(query) == \E i \in DOMAIN query : query[i] = P("force", <<"1">>)

\* cacheTtlSec of the queries of the model in milliseconds
TtlMsOf(query) ==
  IF P("cacheTtlSec", <<"1", "0">>) \in Range(query) THEN 10000 ELSE 60000

\* the cache holds an entry for the parameters of the query that is younger
\* than cacheTtlSec
HoldsYoung(query) ==
  \E key \in DOMAIN dash.cache :
    /\ Range(key) = ParamsOf(query)
    /\ dash.now - dash.cache[key].savedAt < TtlMsOf(query)

\* the step starts the handler on the query: it is answered at once or left
\* waiting for its fetches
StartsDash(query) ==
  /\ dash'.n = dash.n + 1
  /\ \/ dash'.resp # dash.resp /\ dash'.resp.query = query
     \/ \E rq \in dash'.pend \ dash.pend : rq.query = query

AnswersCached == dash'.resp # dash.resp /\ dash'.resp.cached = "true"

\* C17: a request of the dashboard handler is answered with cached: true if
\* and only if it carries no force=1 and the cache holds an entry for its
\* parameters other than force, in any order, younger than cacheTtlSec; that
\* answer involves no upstream fetch and leaves the cache alone, and a request
\* with force=1 is answered with data collected for it
C17_CachedIffYoungEntry ==
  [][ /\ \A query \in DashQueries :
           StartsDash(query) =>
             (AnswersCached <=> (~CarriesForce(query) /\ HoldsYoung(query)))
      /\ AnswersCached =>
           /\ dash'.n = dash.n + 1
           /\ ~dash'.resp.fetched
           /\ dash'.cache = dash.cache
           /\ dash'.pend = dash.pend
      /\ (dash'.resp # dash.resp /\ dash'.resp.status = 200
            /\ CarriesForce(dash'.resp.query))
           => /\ dash'.resp.cached = "false"
              /\ dash'.resp.data = [by |-> dash'.resp.id]
    ]_vars

\* a request sent 9999 ms after the entry of its parameters was stored, with
\* the parameters in another order, is answered from the cache
C17_Witness ==
  /\ dash # Idle
  /\ dash.resp # Null
  /\ dash.resp.cached = "true"
  /\ dash.resp.id = 2
  /\ dash.resp.data = [by |-> 1]
  /\ dash.resp.query = <<P("cacheTtlSec", <<"1", "0">>), P("source", <<"m", "o", "c", "k">>)>>
  /\ dash.now = 9999
  /\ \E key \in DOMAIN dash.cache : dash.cache[key].savedAt = 0

\* C18: every upstream call of the handlers waits under an armed abort timer
\* and for no longer than the largest timeout, and no timer is left armed
\* once the call has returned or thrown
C18_EveryCallUnderTimer ==
  fetch # Idle =>
    /\ (fetch.pc \in Awaiting /\ ~fetch.aborted) => fetch.timer = "armed"
    /\ fetch.pc \in Awaiting => fetch.waited * WaitStepMs <= 20000
    /\ fetch.pc \in {"returned", "threw"} => fetch.timer # "armed"

InFlight == Cardinality({w \in agg.running : w.net})

\* C19: in the seed phase at most 6 fetches are in flight, no seed is fetched
\* twice, and the candidates are counted and sorted only when every worker
\* has returned and every seed index has been fetched exactly once
C19_SeedPool ==
  agg # Idle =>
    /\ InFlight <= 6
    /\ \A i \in DOMAIN agg.fetched : agg.fetched[i] <= 1
    /\ \A w \in agg.running : w.i \in 0..(agg.n - 1)
    /\ agg.phase \in {"start", "seeding"} => agg.top = <<>>
    /\ agg.phase \in {"ranked", "threw"} =>
         /\ agg.running = {}
         /\ agg.finished = 6
         /\ \A i \in 0..(agg.n - 1) : agg.fetched[i] = 1

\* six fetches in flight while a seed waits for a free worker
C19_Witness ==
  /\ agg # Idle
  /\ agg.phase = "seeding"
  /\ InFlight = 6
  /\ agg.n > 6
  /\ agg.si = 6

\* the seed phase run with every answer arriving in the order of the seeds
RECURSIVE inSeedOrder(_, _)
inSeedOrder(st, upto) ==
  IF upto = 0 THEN st
  ELSE LET before == inSeedOrder(st, upto - 1)
           news == foldNews(before, upto - 1)
       IN  IF st.expand THEN foldSuggest(news, upto - 1) ELSE news

\* C20: the order of titlesForRelated, of the sources of every term and of
\* the terms of equal score in the ranking is that of the execution whose
\* answers arrive in the order of the seeds, whatever the order they arrive in
C20_FoldOrderFixed ==
  (agg # Idle /\ agg.phase = "ranked") =>
    LET ref == inSeedOrder([agg EXCEPT !.titles = <<>>, !.score = <<>>, !.errors = 0],
                           agg.n)
    IN  /\ agg.titles = ref.titles
        /\ agg.top = sortByScoreDesc(ref.score)

\* the terms of a score map with their scores and the sets of their sources
Totals(score) ==
  { [term |-> score[i].term, score |-> score[i].score,
     sources |-> Range(score[i].sources)] : i \in DOMAIN score }

SeedOrderRun ==
  inSeedOrder([agg EXCEPT !.titles = <<>>, !.score = <<>>, !.errors = 0], agg.n)

AllCallsMade(st) ==
  /\ st.feeds = {"trends", "newsHome"}
  /\ st.finished = 6 /\ st.running = {}
  /\ \A i \in 0..(st.n - 1) :
       st.fetched[i] = 1 /\ st.looked[i] = (IF st.expand THEN 1 ELSE 0)

\* C22: in a pass of fromInterestKR a call that fails adds no score, titles
\* or candidates; the pass ends only after every call has been made, and it
\* fails only when the final count of candidates is below 200
C22_FailuresAreLocal ==
  [][ /\ (agg'.last # agg.last /\ agg'.last.failed) =>
           /\ agg'.score = agg.score
           /\ agg'.titles = agg.titles
           /\ agg'.base = agg.base
           /\ agg'.phase # "threw"
      /\ agg'.phase \in {"ranked", "threw"} => AllCallsMade(agg')
      /\ agg'.phase = "threw" => agg'.base + Len(agg'.score) < 200
      /\ agg'.phase = "ranked" => agg'.base + Len(agg'.score) >= 200
    ]_vars

\* a pass that is ranked although the news home feed, a seed search and a
\* suggest lookup failed
C22_Witness ==
  /\ agg # Idle
  /\ "last" \in DOMAIN agg
  /\ agg.phase = "ranked"
  /\ agg.expand
  /\ agg.errors >= 3
  /\ agg.last.failed
  /\ agg.score # <<>>

\* C23: in fromRedditRssOnly a subreddit whose fetch timed out is treated as
\* one that answered with an error status: it adds no title, it is noted in
\* errors, the subreddits after it are fetched, and the outcome is decided by
\* the number of titles alone
C23_TimeoutLikeStatus ==
  (agg # Idle /\ agg.timedOut # {}) =>
    /\ agg.timedOut \subseteq Range(agg.errors)
    /\ agg.phase = "fetching" \/ agg.k > agg.subs
    /\ agg.phase # "fetching" => agg.phase = redditOutcome(agg)

\* C24: in the storyKR branch a suggest lookup that fails for one candidate
\* does not fail the request: the candidate is kept with suggestCount 0, the
\* candidates after it are checked, and the sorted list is sent with 200
C24_LookupFailureDegrades ==
  (dash # Idle /\ dash.failedAt # {} /\ dash.phase = "answered") =>
    /\ dash.status = 200
    /\ Len(dash.checked) = Min(MAX_CHECKED, dash.candidates)
    /\ \A j \in DOMAIN dash.checked :
         dash.checked[j].cand \in dash.failedAt => dash.checked[j].suggestCount = 0
    /\ dash.top = storyTop(dash.checked, dash.limit)

\* the least index at which w occurs in s, 0 when it does not occur
firstIndexIn(s, w) ==
  LET at == {p \in 1..(Len(s) - Len(w) + 1) : SubSeq(s, p, p + Len(w) - 1) = w}
  IN  IF at = {} THEN 0 ELSE CHOOSE p \in at : \A q \in at : p <= q

\* C25: tokenizeOrdered returns a list without duplicates whose tokens stand
\* in the order of their first appearance in the title, for every title, also
\* one that mixes Hangul and Latin words
C25_FirstAppearanceOrder ==
  (text # Idle /\ text.out # Null) =>
    LET toks == text.out.toks
        lowered == toLowerCase(text.title)
    IN  /\ \A i, j \in DOMAIN toks : i # j => toks[i] # toks[j]
        /\ \A i, j \in DOMAIN toks :
             i < j => firstIndexIn(lowered, toks[i]) < firstIndexIn(lowered, toks[j])

\* C26: the payload of a provider of the interestKR handler lists its items
\* in non-increasing order of scoreRaw, with rank i at position i
C26_RankedByScoreRaw ==
  (text # Idle /\ text.payload # Null) =>
    LET items == text.payload.items
    IN  /\ \A i \in DOMAIN items : items[i].rank = i
        /\ \A i \in 1..(Len(items) - 1) : items[i].scoreRaw >= items[i + 1].scoreRaw

\* every item of the payload has a term that contains q, letter case ignored
itemsMatch(payload, q) ==
  \A i \in DOMAIN payload.items : termMatches(payload.items[i], toLowerCase(q))

\* C27: in every answer with status 200 to a request with a filter word q,
\* whether computed, taken fresh from the cache or taken as a stale fallback,
\* every item has a term that contains q, letter case ignored; and the payload
\* kept under a key with a filter word holds only items that match that word
C27_ItemsMatchQ ==
  /\ (resp.status = 200 /\ resp.rq # Null /\ requestQ(resp.rq.q) # <<>>) =>
       itemsMatch(resp.body, requestQ(resp.rq.q))
  /\ \A key \in DOMAIN cache :
       key.q # <<>> => itemsMatch(cache[key].data, key.q)

\* a stale fallback served to a request with a filter word, with items
C27_Witness ==
  /\ resp.status = 200 /\ resp.rq # Null
  /\ resp.path = "stale"
  /\ requestQ(resp.rq.q) # <<>>
  /\ resp.body.items # <<>>
  /\ \E i \in 1..MIN_CANDIDATES : ~termMatches([term |-> i], toLowerCase(requestQ(resp.rq.q)))

\* C28: in the interestKR handler a payload taken from the cache, fresh or as
\* a stale fallback, was computed for the seeds, seedMode, expand and maxSeeds
\* of the request it is served to
C28_KeyCoversSeedParams ==
  (resp.status = 200 /\ resp.rq # Null) => resp.body.debug = seedPlan(resp.rq)

\* C29: fetchWithRetry makes at most retry + 1 attempts; it returns the first
\* answer that is ok, without a further attempt; it sleeps 250 * 2^i ms after
\* the failed attempt i only when another attempt follows, never after the
\* last one; and when every attempt fails it throws the error of the last
C29_RetryDiscipline ==
  (fetch # Idle /\ fetch.kind = "fetchWithRetry" /\ fetch.pc # "start") =>
    /\ fetch.attempts = fetch.i + 1
    /\ fetch.attempts <= fetch.retry + 1
    /\ \A j \in DOMAIN fetch.errs : fetch.errs[j].attempt = j - 1
    /\ \A j \in DOMAIN fetch.slept : fetch.slept[j] = 250 * 2^(j - 1)
    /\ Len(fetch.slept) = (IF fetch.pc = "sleep" THEN fetch.attempts
                           ELSE fetch.attempts - 1)
    /\ fetch.pc = "returned" =>
         /\ fetch.ok
         /\ Len(fetch.errs) = fetch.attempts - 1
         /\ fetch.thrown = Null
    /\ fetch.pc = "threw" =>
         /\ fetch.attempts = fetch.retry + 1
         /\ Len(fetch.errs) = fetch.retry + 1
         /\ Len(fetch.slept) = fetch.retry
         /\ fetch.thrown = fetch.errs[fetch.retry + 1]

\* a call with retry 2 that has failed three times, by the network and by the
\* status, and has slept 250 and 500 ms
C29_Witness ==
  /\ fetch # Idle /\ fetch.kind = "fetchWithRetry"
  /\ fetch.retry = 2 /\ fetch.pc = "threw"
  /\ fetch.slept = <<250, 500>>
  /\ fetch.errs[1].name = "network"
  /\ fetch.thrown = HttpError(2)

\* C30: with allowSearchFallback false the channel resolution never calls
\* search.list, whatever the form of the input: it spends one unit per call of
\* channels.list, and it ends resolved by channels.list or with a failure
C30_NoSearchWithoutFallback ==
  (agg # Idle /\ ~agg.allowSearchFallback) =>
    /\ \A j \in DOMAIN agg.calls : agg.calls[j] = "channels.list"
    /\ agg.units = Len(agg.calls) * CHANNELS_LIST_UNITS
    /\ agg.pc # "search"
    /\ agg.pc = "done" =>
         /\ agg.outcome \in {"resolved", "failed", "threw"}
         /\ agg.outcome = "resolved" => agg.calls # <<>>

\* a resolution without fallback that has ended in failure after two calls of
\* channels.list
C30_Witness ==
  /\ agg # Idle /\ ~agg.allowSearchFallback
  /\ agg.pc = "done" /\ agg.outcome = "failed"
  /\ agg.calls = <<"channels.list", "channels.list">>

====
